---- MODULE Spec2Model ----
(***************************************************************************)
(* Model of the SMS outreach backend's inbound decision engine:            *)
(*   app/utils/llm_client.py   pattern filters, generative classifier,     *)
(*                             acknowledgment generator                    *)
(*   app/routes/messages.py    send_ongoing_sms, handle_incoming_sms,      *)
(*                             send_manual_message, send_message,          *)
(*                             send_initial_sms, create_manual_message     *)
(*   app/routes/customers.py   create_customer, delete_customer            *)
(* Texts are real strings; the filters search them for substrings exactly  *)
(* as the Python `in` operator does.  The completion service, the SMS      *)
(* transport and the clock are the environment: each call's outcome is a   *)
(* nondeterministic choice.  Messages are kept in the order they were      *)
(* written, which is the order of their utcnow() timestamps.               *)
(***************************************************************************)
EXTENDS Integers, Sequences, FiniteSets, TLC

(***************************************************************************)
(* String primitives used by the Python code (str.lower, str.upper,        *)
(* str.strip, `in`, str.startswith, str.split).                            *)
(***************************************************************************)
UpperLetters == "ABCDEFGHIJKLMNOPQRSTUVWXYZ"

LowerLetters == "abcdefghijklmnopqrstuvwxyz"

RECURSIVE IndexIn(_, _, _)
IndexIn(c, alphabet, i) ==
    IF i > Len(alphabet) THEN 0
    ELSE IF SubSeq(alphabet, i, i) = c THEN i
    ELSE IndexIn(c, alphabet, i + 1)

MapChar(c, from, to) ==
    LET i == IndexIn(c, from, 1) IN IF i = 0 THEN c ELSE SubSeq(to, i, i)

RECURSIVE MapString(_, _, _)
MapString(s, from, to) ==
    IF Len(s) = 0 THEN ""
    ELSE MapChar(SubSeq(s, 1, 1), from, to) \o MapString(SubSeq(s, 2, Len(s)), from, to)

\* str.lower()
lower(s) == MapString(s, UpperLetters, LowerLetters)

\* str.upper()
upper(s) == MapString(s, LowerLetters, UpperLetters)

IsSpace(c) == c \in {" ", "\t", "\n", "\r"}

RECURSIVE lstrip(_)
lstrip(s) ==
    IF Len(s) > 0 /\ IsSpace(SubSeq(s, 1, 1)) THEN lstrip(SubSeq(s, 2, Len(s))) ELSE s

RECURSIVE rstrip(_)
rstrip(s) ==
    IF Len(s) > 0 /\ IsSpace(SubSeq(s, Len(s), Len(s)))
    THEN rstrip(SubSeq(s, 1, Len(s) - 1)) ELSE s

\* str.strip()
strip(s) == rstrip(lstrip(s))

\* pattern in s
Contains(s, pattern) ==
    \E i \in 1..(Len(s) - Len(pattern) + 1) : SubSeq(s, i, i + Len(pattern) - 1) = pattern

\* s.startswith(prefix)
startswith(s, prefix) ==
    Len(s) >= Len(prefix) /\ SubSeq(s, 1, Len(prefix)) = prefix

\* s.split(prefix, 1)[1] for a string that starts with prefix
AfterPrefix(s, prefix) == SubSeq(s, Len(prefix) + 1, Len(s))

\* s.split('\n')
RECURSIVE SplitLines(_, _)
SplitLines(s, cur) ==
    IF Len(s) = 0 THEN <<cur>>
    ELSE IF SubSeq(s, 1, 1) = "\n"
         THEN <<cur>> \o SplitLines(SubSeq(s, 2, Len(s)), "")
         ELSE SplitLines(SubSeq(s, 2, Len(s)), cur \o SubSeq(s, 1, 1))

split_lines(s) == SplitLines(s, "")

\* any(p in s for p in patterns)
AnyIn(s, patterns) == \E k \in 1..Len(patterns) : Contains(s, patterns[k])

(***************************************************************************)
(* Pattern filters (llm_client.py).                                        *)
(***************************************************************************)
do_not_contact_patterns ==
    << "do not contact", "don't contact", "stop messaging", "stop texting",
       "don't text", "stop calling", "stop contacting", "remove me",
       "unsubscribe", "take me off", "opt out", "leave me alone",
       "stop bothering", "don't want to hear", "no more messages",
       "not interested", "if you contact me again i will sue",
       "if you contact me again, i will sue" >>

dnc_stop_words == << "stop", "don't", "remove", "unsubscribe", "opt out" >>

dnc_contact_words == << "contact", "message", "text", "call", "bother" >>

\* Variant: only the stop-word/contact-word rule, without the phrase list
check_do_not_contact_words_only(message) ==
    LET message_lower == strip(lower(message)) IN
       AnyIn(message_lower, dnc_stop_words) /\ AnyIn(message_lower, dnc_contact_words)

\* Variant: only the phrase list, without the stop-word/contact-word rule
check_do_not_contact_phrases_only(message) ==
    LET message_lower == strip(lower(message)) IN
       AnyIn(message_lower, do_not_contact_patterns)

\* Variant: the do-not-contact filter is skipped
check_do_not_contact_skipped(message) == FALSE

check_do_not_contact_patterns(message) ==
    LET message_lower == strip(lower(message)) IN
       \/ AnyIn(message_lower, do_not_contact_patterns)
       \/ (AnyIn(message_lower, dnc_stop_words) /\ AnyIn(message_lower, dnc_contact_words))

violence_patterns ==
    << "kill", "hurt", "harm", "destroy", "burn", "shoot", "attack", "beat",
       "murder", "violence", "weapon", "gun", "knife", "bomb", "explode", "pay",
       "know where you live", "find you", "get you", "come for you" >>

legal_patterns ==
    << "sue", "lawyer", "attorney", "lawsuit", "legal action", "malpractice",
       "court", "judge", "litigation", "state board", "licensing", "report you",
       "legal", "action" >>

medical_emergency_patterns ==
    << "severe pain", "bleeding", "allergic reaction", "can't breathe",
       "emergency", "hospital", "infection", "swollen", "rash", "burning",
       "doesn't look right", "looks wrong", "something wrong",
       "something is wrong", "not right" >>

extreme_anger_patterns ==
    << "unacceptable", "furious", "terrible", "worst", "horrible", "disgusting",
       "incompetent", "idiots", "stupid", "hate you", "money back",
       "never coming back", "never again", "done with you", "awful", "pathetic" >>

threat_words == << "going to", "will", "gonna" >>

threat_actions == << "kill", "hurt", "destroy", "sue", "report" >>

\* Variant: only the violence list
check_critical_violence_only(message) ==
    LET message_lower == strip(lower(message)) IN AnyIn(message_lower, violence_patterns)

\* Variant: the four keyword lists, without the threat combinations
check_critical_keywords_only(message) ==
    LET message_lower == strip(lower(message)) IN
       AnyIn(message_lower, violence_patterns \o legal_patterns
                               \o medical_emergency_patterns \o extreme_anger_patterns)

check_critical_escalation_patterns(message) ==
    LET message_lower == strip(lower(message)) IN
       \/ AnyIn(message_lower, violence_patterns)
       \/ AnyIn(message_lower, legal_patterns)
       \/ AnyIn(message_lower, medical_emergency_patterns)
       \/ AnyIn(message_lower, extreme_anger_patterns)
       \/ (AnyIn(message_lower, threat_words) /\ AnyIn(message_lower, threat_actions))

(***************************************************************************)
(* The completion service.  One call either raises or returns a content    *)
(* string.  An optional text (Python None or a str) is <<>> or <<text>>.   *)
(***************************************************************************)
None == <<>>

Some(text) == <<text>>

\* Python truthiness of an Optional[str]
Truthy(opt) == opt # None /\ opt[1] # ""

Raised == [raise |-> TRUE, content |-> ""]

Returned(text) == [raise |-> FALSE, content |-> text]

\* What is recorded for a completion call that was not made
NoCompletion == [raise |-> FALSE, content |-> ""]

\* generate_escalation_message: one completion call, static fallback on any failure
generate_escalation_message(completion, customer_name) ==
    IF completion.raise
    THEN "Hi " \o customer_name \o
         ", I understand your concern. A staff member will contact you shortly to help resolve this."
    ELSE strip(completion.content)

\* Variant: only the word true counts
TrueWordsStrict == {"true"}

TrueWords == {"true", "yes", "1"}

\* One iteration of the parsing loop of generate_auto_reply
ParseLine(acc, raw) ==
    LET line == strip(raw) IN
    IF startswith(line, "AUTO_REPLY:")
    THEN LET reply_text == strip(AfterPrefix(line, "AUTO_REPLY:")) IN
         IF upper(reply_text) # "NONE"
         THEN [acc EXCEPT !.auto_reply = Some(reply_text)] ELSE acc
    ELSE IF startswith(line, "ESCALATE:")
    THEN [acc EXCEPT !.should_escalate =
              lower(strip(AfterPrefix(line, "ESCALATE:"))) \in TrueWords]
    ELSE IF startswith(line, "DO_NOT_CONTACT:")
    THEN [acc EXCEPT !.is_do_not_contact =
              lower(strip(AfterPrefix(line, "DO_NOT_CONTACT:"))) \in TrueWords]
    ELSE acc

RECURSIVE ParseLines(_, _, _)
ParseLines(acc, lines, k) ==
    IF k > Len(lines) THEN acc ELSE ParseLines(ParseLine(acc, lines[k]), lines, k + 1)

\* Variant: the response is lower-cased before it is parsed
parse_response_case_folded(content) ==
    ParseLines([auto_reply |-> None, should_escalate |-> FALSE, is_do_not_contact |-> FALSE],
               split_lines(strip(lower(content))), 1)

\* The parsing part of generate_auto_reply, applied to the completion's content
parse_response(content) ==
    ParseLines([auto_reply |-> None, should_escalate |-> FALSE, is_do_not_contact |-> FALSE],
               split_lines(strip(content)), 1)

\* Variant: a failed classification lets the message through
fail_open_result ==
    [auto_reply |-> None, should_escalate |-> FALSE, is_do_not_contact |-> FALSE,
     classify_calls |-> 1, ack_calls |-> 0]

\* except Exception: return None, True, False
fail_safe_result ==
    [auto_reply |-> None, should_escalate |-> TRUE, is_do_not_contact |-> FALSE,
     classify_calls |-> 1, ack_calls |-> 0]

\* Variant: the critical-escalation filter is tried before the do-not-contact filter
generate_auto_reply_critical_first(incoming_message, customer_name, classify, ack) ==
    IF check_critical_escalation_patterns(incoming_message)
    THEN [auto_reply |-> Some(generate_escalation_message(ack, customer_name)),
          should_escalate |-> TRUE, is_do_not_contact |-> FALSE,
          classify_calls |-> 0, ack_calls |-> 1]
    ELSE IF check_do_not_contact_patterns(incoming_message)
    THEN [auto_reply |-> None, should_escalate |-> TRUE, is_do_not_contact |-> TRUE,
          classify_calls |-> 0, ack_calls |-> 0]
    ELSE IF classify.raise
    THEN fail_safe_result
    ELSE LET r == parse_response(classify.content) IN
         [auto_reply |-> r.auto_reply, should_escalate |-> r.should_escalate,
          is_do_not_contact |-> r.is_do_not_contact,
          classify_calls |-> 1, ack_calls |-> 0]

\* generate_auto_reply.  classify is the outcome of the classification
\* completion call and ack the outcome of the acknowledgment call made on the
\* critical path; calls counts the completion calls actually made.
generate_auto_reply(incoming_message, customer_name, classify, ack) ==
    IF check_do_not_contact_patterns(incoming_message)
    THEN [auto_reply |-> None, should_escalate |-> TRUE, is_do_not_contact |-> TRUE,
          classify_calls |-> 0, ack_calls |-> 0]
    ELSE IF check_critical_escalation_patterns(incoming_message)
    THEN [auto_reply |-> Some(generate_escalation_message(ack, customer_name)),
          should_escalate |-> TRUE, is_do_not_contact |-> FALSE,
          classify_calls |-> 0, ack_calls |-> 1]
    ELSE IF classify.raise
    THEN fail_safe_result
    ELSE LET r == parse_response(classify.content) IN
         [auto_reply |-> r.auto_reply, should_escalate |-> r.should_escalate,
          is_do_not_contact |-> r.is_do_not_contact,
          classify_calls |-> 1, ack_calls |-> 0]

(***************************************************************************)
(* Bounds of the model and the inputs the environment draws from.          *)
(***************************************************************************)
MaxMessages == 4

\* Records written directly through create_manual_message
MaxRecords == 1

\* Stored messages whose delivery failed
MaxUndelivered == 1

\* Stored outbound messages that were not written by an inbound handler
MaxStaff == 2

Phones == {"+14135550101"}

CustomerNames == {"Pat"}

UnknownName(phone) == "Unknown (" \o phone \o ")"

Texts ==
    { "unsubscribe",
      "I will sue you, this is unacceptable",
      "ok thanks" }

\* Contents the classification completion can return
ClassifyContents ==
    { "AUTO_REPLY: We are open 9-5.\nESCALATE: false\nDO_NOT_CONTACT: false",
      "AUTO_REPLY: NONE\nESCALATE: true\nDO_NOT_CONTACT: false",
      "AUTO_REPLY: We are open 9-5.\nESCALATE: false\nDO_NOT_CONTACT: true",
      "AUTO_REPLY: NONE\nESCALATE: true\nDO_NOT_CONTACT: true",
      "AUTO_REPLY: NONE\nDO_NOT_CONTACT: TRUE",
      "I am not sure how to answer that." }

AckContents == { "Hi, I'm sorry to hear that. A team member will reach out to you shortly." }

ReplyContents == { "We are open 9-5." }

OutboundContents == { "Hi Pat, it's time for your follow-up visit!" }

StaffContents == { "This is Dana from the clinic, I'll call you today." }

RecordContents == { "called the customer" }

\* The shapes of record the callers of create_manual_message write: a staff
\* message sent outside the system, an escalated note
RecordShapes ==
    { [direction |-> "outbound", source |-> "manual", escalation |-> FALSE],
      [direction |-> "inbound", source |-> "manual", escalation |-> TRUE] }

Outcomes(contents) == {Raised} \cup {Returned(c) : c \in contents}

\* The inputs of one specification.  Core explores the conversation engine:
\* every classification, acknowledgment and reply outcome, with requests that
\* pass the webhook signature check and outbound generations that succeed.
Core ==
    [ maxMessages |-> MaxMessages, maxRecords |-> MaxRecords,
      maxUndelivered |-> MaxUndelivered, maxStaff |-> MaxStaff, phones |-> Phones,
      texts |-> Texts, classify |-> Outcomes(ClassifyContents),
      ack |-> Outcomes(AckContents), reply |-> Outcomes(ReplyContents),
      outbound |-> {Returned(c) : c \in OutboundContents},
      signatures |-> {TRUE}, store_failures |-> {"none"} ]

\* Long follows one customer's conversation past the 10-message history
\* window: inbound messages only, a classifier that answers, no failures.
MaxLongMessages == 12

LongTexts == {"unsubscribe", "ok thanks"}

LongClassifyContents ==
    { "AUTO_REPLY: We are open 9-5.\nESCALATE: false\nDO_NOT_CONTACT: false" }

Long ==
    [ maxMessages |-> MaxLongMessages, maxRecords |-> 0,
      maxUndelivered |-> 0, maxStaff |-> 0, phones |-> Phones,
      texts |-> LongTexts, classify |-> {Returned(c) : c \in LongClassifyContents},
      ack |-> {Returned(c) : c \in AckContents},
      reply |-> {Returned(c) : c \in ReplyContents},
      outbound |-> {Returned(c) : c \in OutboundContents},
      signatures |-> {TRUE}, store_failures |-> {"none"} ]

\* Store follows the inbound handlers when a write to the messages collection
\* raises: the append of the inbound message, the update of its escalation
\* flag, the append of the reply or acknowledgment.
MaxStoreMessages == 3

StoreFailures == {"none", "inbound", "update", "outbound"}

StoreClassifyContents ==
    { "AUTO_REPLY: We are open 9-5.\nESCALATE: false\nDO_NOT_CONTACT: false",
      "AUTO_REPLY: NONE\nESCALATE: true\nDO_NOT_CONTACT: false" }

Store ==
    [ maxMessages |-> MaxStoreMessages, maxRecords |-> 0,
      maxUndelivered |-> 0, maxStaff |-> 0, phones |-> Phones,
      texts |-> Texts, classify |-> {Returned(c) : c \in StoreClassifyContents},
      ack |-> {Returned(c) : c \in AckContents},
      reply |-> {Returned(c) : c \in ReplyContents},
      outbound |-> {Returned(c) : c \in OutboundContents},
      signatures |-> {TRUE}, store_failures |-> StoreFailures ]

\* Filter follows the inbound handlers on texts that trip one filter, the
\* other, both, or none.
MaxFilterMessages == 3

FilterTexts ==
    { "If you contact me again I will sue",
      "Stop texting me or I will call my lawyer",
      "I will sue you, this is unacceptable",
      "please remove me",
      "ok thanks" }

Filter ==
    [ maxMessages |-> MaxFilterMessages, maxRecords |-> 0,
      maxUndelivered |-> 0, maxStaff |-> 0, phones |-> Phones,
      texts |-> FilterTexts, classify |-> {Returned(c) : c \in StoreClassifyContents},
      ack |-> Outcomes(AckContents),
      reply |-> {Returned(c) : c \in ReplyContents},
      outbound |-> {Returned(c) : c \in OutboundContents},
      signatures |-> {TRUE}, store_failures |-> {"none"} ]

\* Manual follows the staff's send_manual_message on a conversation that grows
\* beyond the history window, next to the conversation of another customer.
MaxManualMessages == 13

MaxOtherMessages == 1

MaxManualStaff == 2

OtherPhone == "+14135550102"

ManualTexts == {"unsubscribe"}

Manual ==
    [ maxMessages |-> MaxManualMessages, maxRecords |-> 0,
      maxUndelivered |-> 0, maxStaff |-> MaxManualStaff, phones |-> Phones,
      texts |-> ManualTexts, classify |-> {Returned(c) : c \in StoreClassifyContents},
      ack |-> {Returned(c) : c \in AckContents},
      reply |-> {Returned(c) : c \in ReplyContents},
      outbound |-> {Returned(c) : c \in OutboundContents},
      signatures |-> {TRUE}, store_failures |-> {"none"} ]

\* The other customer writes first
ManualOther == [Manual EXCEPT !.phones = {OtherPhone}, !.maxMessages = MaxOtherMessages]

\* Ack follows the inbound handlers when the acknowledgment completion fails
\* or returns a text without any visible character.
MaxAckMessages == 3

BlankAckContents == { "  " }

AckTexts == { "I will sue you, this is unacceptable", "ok thanks" }

Ack ==
    [ maxMessages |-> MaxAckMessages, maxRecords |-> 0,
      maxUndelivered |-> 1, maxStaff |-> 0, phones |-> Phones,
      texts |-> AckTexts, classify |-> {Returned(c) : c \in StoreClassifyContents},
      ack |-> Outcomes(AckContents \cup BlankAckContents),
      reply |-> {Returned(c) : c \in ReplyContents},
      outbound |-> {Returned(c) : c \in OutboundContents},
      signatures |-> {TRUE}, store_failures |-> {"none"} ]

\* Race follows inbound requests of one customer whose handlers run
\* concurrently and give way to each other where they await.
MaxRaceMessages == 4

RaceTexts == { "I will sue you, this is unacceptable", "ok thanks" }

Race ==
    [ maxMessages |-> MaxRaceMessages, maxRecords |-> 0,
      maxUndelivered |-> 0, maxStaff |-> 0, phones |-> Phones,
      texts |-> RaceTexts, classify |-> {Returned(c) : c \in StoreClassifyContents},
      ack |-> {Returned(c) : c \in AckContents},
      reply |-> {Returned(c) : c \in ReplyContents},
      outbound |-> {Returned(c) : c \in OutboundContents},
      signatures |-> {TRUE}, store_failures |-> {"none"} ]

\* Patterns evaluates the two pattern filters on texts built around every
\* entry of their lists, some of them in three spellings; Pure evaluates them again and
\* again while inbound events change the store.
MaxPatternEvaluations == 1

MaxPureEvaluations == 3

MaxPureMessages == 2

Items(list) == {list[i] : i \in 1..Len(list)}

PatternCores ==
    Items(do_not_contact_patterns)
      \cup { s \o " sending me a " \o c :
                s \in Items(dnc_stop_words), c \in Items(dnc_contact_words) }
      \cup Items(violence_patterns) \cup Items(legal_patterns)
      \cup Items(medical_emergency_patterns) \cup Items(extreme_anger_patterns)
      \cup { "i am " \o w \o " " \o a \o " this" :
                w \in Items(threat_words), a \in Items(threat_actions) }
      \cup { "ok thanks", "what time do you open?", "stop by anytime",
             "remove the bandage tomorrow?", "can you call me", "send me the report",
             "i will be there", "thanks for the message", "" }

\* The texts that are also tried in capitals and inside a sentence
SpelledCores ==
    { "do not contact", "don't want to hear", "opt out", "remove sending me a call",
      "stop sending me a text", "kill", "know where you live", "legal action",
      "can't breathe", "never again", "i am gonna report this", "i am will sue this",
      "ok thanks", "send me the report", "what time do you open?" }

SpelledTexts ==
    SpelledCores
      \cup { upper(c) : c \in SpelledCores }
      \cup { "  Hello, " \o c \o "!  " : c \in SpelledCores }

PatternTexts == PatternCores \cup SpelledTexts

Patterns == [ texts |-> PatternTexts, maxEvaluations |-> MaxPatternEvaluations ]

Pure ==
    [ maxMessages |-> MaxPureMessages, maxRecords |-> 0,
      maxUndelivered |-> 0, maxStaff |-> 0, phones |-> Phones,
      texts |-> Texts, classify |-> {Returned(c) : c \in StoreClassifyContents},
      ack |-> {Returned(c) : c \in AckContents},
      reply |-> {Returned(c) : c \in ReplyContents},
      outbound |-> {Returned(c) : c \in OutboundContents},
      signatures |-> {TRUE}, store_failures |-> {"none"},
      maxEvaluations |-> MaxPureEvaluations ]

\* The two filters on these texts, evaluated once
filter_table ==
    [t \in PatternTexts \cup Texts |->
        [dnc |-> check_do_not_contact_patterns(t),
         critical |-> check_critical_escalation_patterns(t)]]

AllTexts == Texts \cup LongTexts \cup FilterTexts

AllNames == CustomerNames \cup {UnknownName(p) : p \in Phones \cup {OtherPhone}}

AllClassify == Outcomes(ClassifyContents)

AllAck == Outcomes(AckContents \cup BlankAckContents)

AllReply == Outcomes(ReplyContents) \cup Outcomes(OutboundContents)

\* The functions of llm_client.py on the inputs above, evaluated once
auto_reply_table ==
    [t \in AllTexts, n \in AllNames, c \in AllClassify, a \in AllAck |->
        generate_auto_reply(t, n, c, a)]

escalation_message_table ==
    [a \in AllAck, n \in AllNames |-> generate_escalation_message(a, n)]

SmsLimit == 160

\* Variant: the length of the completion is taken before strip()
generate_with_raw_length_retry(first, second) ==
    IF first.raise THEN [raise |-> TRUE, content |-> "", calls |-> 1]
    ELSE IF Len(first.content) > SmsLimit
    THEN IF second.raise THEN [raise |-> TRUE, content |-> "", calls |-> 2]
         ELSE [raise |-> FALSE, content |-> strip(second.content), calls |-> 2]
    ELSE [raise |-> FALSE, content |-> strip(first.content), calls |-> 1]

\* generate_ongoing_response and generate_outbound_message: a second completion
\* call when the first answer is longer than 160 characters; any failure is
\* re-raised
generate_with_length_retry(first, second) ==
    IF first.raise THEN [raise |-> TRUE, content |-> "", calls |-> 1]
    ELSE IF Len(strip(first.content)) > SmsLimit
    THEN IF second.raise THEN [raise |-> TRUE, content |-> "", calls |-> 2]
         ELSE [raise |-> FALSE, content |-> strip(second.content), calls |-> 2]
    ELSE [raise |-> FALSE, content |-> strip(first.content), calls |-> 1]

generation_table ==
    [first \in AllReply, second \in AllReply |-> generate_with_length_retry(first, second)]

\* Whether a text trips one of the two filters, so that no classification call is made
pattern_table ==
    [t \in AllTexts |->
        [dnc |-> check_do_not_contact_patterns(t),
         critical |-> check_critical_escalation_patterns(t)]]

(***************************************************************************)
(* State.                                                                  *)
(*   customers  the customers collection, one document per phone number;   *)
(*              the document id is modelled by the phone number            *)
(*   messages   the messages collection, in the order of the timestamps    *)
(*   ev         what the last request did (the classification, the branch  *)
(*              taken, the SMS handed to the transport)                    *)
(*   silenced   customers whose inbound message was handled as a           *)
(*              do-not-contact request since the last re-enable            *)
(*   takeover   customers who got a staff message with source=manual since *)
(*              the last re-enable                                         *)
(*   requests   the inbound requests that are handled step by step: where  *)
(*              each one stands and what it has read                       *)
(*   evaluations  the direct evaluations of the two pattern filters, in    *)
(*              order: the text, the two results, the size of the store    *)
(***************************************************************************)
VARIABLES customers, messages, ev, silenced, takeover, requests, evaluations

vars == <<customers, messages, ev, silenced, takeover, requests, evaluations>>

NOT_SENT_TWILIO_ERROR == "NOT_SENT_TWILIO_ERROR"

NoEv ==
    [ op |-> "none", status |-> 0, customer_id |-> "",
      auto_reply |-> None, should_escalate |-> FALSE, is_do_not_contact |-> FALSE,
      conversation_escalated |-> FALSE, last_outbound_was_manual |-> FALSE,
      action |-> "none", sms |-> <<>>,
      classify_calls |-> 0, ack_calls |-> 0, reply_calls |-> 0,
      inbound |-> 0, re_enable_ai |-> FALSE, cleared |-> 0,
      text |-> "", classify |-> NoCompletion, raised |-> FALSE,
      store_failed |-> FALSE,
      history |-> <<>>, prompt |-> <<>>, order |-> "none",
      escalation_writes |-> <<>>, phone |-> "",
      completions |-> <<>>, result |-> None,
      x_api_key |-> None, api_key |-> None ]

Message(customer_id, direction, content, source, escalation, twilio_sid) ==
    [ customer_id |-> customer_id, direction |-> direction, content |-> content,
      source |-> source, escalation |-> escalation, twilio_sid |-> twilio_sid ]

\* twilio_sid of a message that was not sent by the backend (the SID Twilio
\* gave an inbound message is never read and is not modelled)
NoSid == "none"

\* send_sms inside try/except: the SID, or the sentinel when the transport raised
SidOf(delivered) == IF delivered THEN "SM-out" ELSE NOT_SENT_TWILIO_ERROR

\* Variant: the update sets the flag of every stored message
mark_escalation_everywhere(msgs) ==
    [i \in 1..Len(msgs) |-> [msgs[i] EXCEPT !.escalation = TRUE]]

\* message_ref.update({'escalation': True}) on the inbound message just stored
mark_escalation(msgs) == [msgs EXCEPT ![Len(msgs)].escalation = TRUE]

\* Variant: every inbound message is stored as escalated
inbound_message_escalated(customer_id, text, escalation) ==
    Message(customer_id, "inbound", text, "manual", TRUE, NoSid)

\* Variant: the text is normalised before it is stored
inbound_message_normalised(customer_id, text, escalation) ==
    Message(customer_id, "inbound", strip(lower(text)), "manual", escalation, NoSid)

\* The inbound message document both handlers store: the text as received
inbound_message(customer_id, text, escalation) ==
    Message(customer_id, "inbound", text, "manual", escalation, NoSid)

Sms(body, delivered) == [body |-> body, delivered |-> delivered]

Customer(name, phone) == [id |-> phone, name |-> name, phone |-> phone]

\* Variant: the query is not filtered by the phone number
customer_docs_unfiltered(custs, phone) == custs

\* customers_ref.where(phone == ...).stream()
customer_docs(custs, phone) == {c \in custs : c.phone = phone}

\* customers_ref.document(customer_id).get()
customer_doc(custs, customer_id) == {c \in custs : c.id = customer_id}

Reverse(s) == [i \in 1..Len(s) |-> s[Len(s) + 1 - i]]

Take(s, n) == SubSeq(s, 1, IF Len(s) < n THEN Len(s) ELSE n)

HistoryLimit == 10

\* messages_ref.where(customer_id == ...), sorted by timestamp descending,
\* cut to the 10 most recent, reversed to chronological order
message_history(msgs, customer_id) ==
    LET docs == SelectSeq(msgs, LAMBDA m : m.customer_id = customer_id)
        newest_first == Reverse(docs)
    IN  Reverse(Take(newest_first, HistoryLimit))

\* Variant: send_ongoing_sms reading the history after the inbound message is stored
ongoing_history_after_store(before, after, customer_id) == message_history(after, customer_id)

\* send_ongoing_sms reads the history before it stores the inbound message,
\* handle_incoming_sms after
ongoing_history(before, after, customer_id) == message_history(before, customer_id)

incoming_history(before, after, customer_id) == message_history(after, customer_id)

\* Variant: the escalation flags of the history are never consulted
conversation_never_escalated(history) == FALSE

\* any(msg.get('escalation', False) for msg in message_history)
conversation_escalated(history) == \E i \in 1..Len(history) : history[i].escalation

\* Variant: only the most recent message of the history is looked at
last_message_was_manual(history) ==
    /\ Len(history) > 0
    /\ history[Len(history)].direction = "outbound"
    /\ history[Len(history)].source = "manual"

\* the first outbound message found scanning from the most recent backward is manual
last_outbound_was_manual(history) ==
    LET outs == {i \in 1..Len(history) : history[i].direction = "outbound"} IN
    /\ outs # {}
    /\ history[CHOOSE i \in outs : \A j \in outs : j <= i].source = "manual"

\* The completion calls a request does not make have no outcome to choose
NoCall == {Raised}

ClassifyChoices(B, text) ==
    IF pattern_table[text].dnc \/ pattern_table[text].critical THEN NoCall ELSE B.classify

FilterAckChoices(B, text) ==
    IF (~pattern_table[text].dnc) /\ pattern_table[text].critical THEN B.ack ELSE NoCall

Undelivered(msgs) ==
    Len(SelectSeq(msgs, LAMBDA m : m.twilio_sid = NOT_SENT_TWILIO_ERROR))

StaffWritten(msgs) ==
    Len(SelectSeq(msgs, LAMBDA m : m.content \in StaffContents \cup OutboundContents))

\* The outcome of send_sms, which the transport chooses when it is called
DeliveryChoices(B, sends) ==
    IF sends /\ Undelivered(messages) < B.maxUndelivered THEN BOOLEAN ELSE {TRUE}

\* The fields of ev that both inbound handlers fill from the classification
Classified(op, customer_id, r, conv, manual, inbound) ==
    [NoEv EXCEPT !.op = op, !.status = 200, !.customer_id = customer_id,
                 !.auto_reply = r.auto_reply,
                 !.should_escalate = r.should_escalate,
                 !.is_do_not_contact = r.is_do_not_contact,
                 !.conversation_escalated = conv,
                 !.last_outbound_was_manual = manual,
                 !.classify_calls = r.classify_calls,
                 !.ack_calls = r.ack_calls,
                 !.inbound = inbound]

\* Variant: only an escalated conversation disables the auto-reply
should_auto_reply_conversation_only(reply, should_escalate, conv, manual) ==
    reply /\ ~conv

\* should_auto_reply of both handlers: "not should_escalate" (with
\* "auto_reply and" in the webhook, TRUE for reply in send_ongoing_sms),
\* then set to False when the conversation is escalated or staff took over
should_auto_reply(reply, should_escalate, conv, manual) ==
    reply /\ (~should_escalate) /\ ~(conv \/ manual)

(***************************************************************************)
(* send_ongoing_sms, from the history query on (messages.py 403-584).      *)
(* The result is the new messages collection and the record of the event.  *)
(***************************************************************************)
ongoing_sms(msgs, customer_id, customer_name, text, classify, ack1, ack2, reply1, reply2, delivered, fail) ==
    LET r == auto_reply_table[text, customer_name, classify, ack1]
        stored == Append(msgs, inbound_message(customer_id, text, r.should_escalate))
        history == ongoing_history(msgs, stored, customer_id)
        conv == conversation_escalated(history)
        manual == last_outbound_was_manual(history)
        auto_replies == should_auto_reply(TRUE, r.should_escalate, conv, manual)
        filter_raised == (r.classify_calls = 1 /\ classify.raise)
                            \/ (r.ack_calls = 1 /\ ack1.raise)
        base == [Classified("send_ongoing_sms", customer_id, r, conv, manual, Len(stored))
                    EXCEPT !.text = text,
                           !.classify = IF r.classify_calls = 1 THEN classify
                                        ELSE NoCompletion,
                           !.raised = filter_raised,
                           !.escalation_writes = <<r.should_escalate>>]
        \* a store operation raised: the handler's except answers 500
        failed == [base EXCEPT !.action = "StoreFailed", !.status = 500, !.store_failed = TRUE]
    IN
    IF fail = "inbound"
    THEN [messages |-> msgs, ev |-> [failed EXCEPT !.inbound = 0, !.escalation_writes = <<>>]]
    ELSE IF auto_replies
    THEN LET g == generation_table[reply1, reply2] IN
         IF g.raise
         THEN [messages |-> stored,
               ev |-> [base EXCEPT !.action = "AutoReply", !.status = 500,
                                   !.reply_calls = g.calls, !.raised = TRUE]]
         ELSE IF fail = "outbound"
         THEN [messages |-> stored,
               ev |-> [failed EXCEPT !.reply_calls = g.calls,
                                     !.sms = <<Sms(g.content, delivered)>>]]
         ELSE [messages |-> Append(stored, Message(customer_id, "outbound", g.content,
                                                   "ai", FALSE, SidOf(delivered))),
               ev |-> [base EXCEPT !.action = "AutoReply", !.reply_calls = g.calls,
                                   !.sms = <<Sms(g.content, delivered)>>]]
    ELSE IF r.should_escalate
    THEN LET marked == mark_escalation(stored)
             updated == [base EXCEPT !.escalation_writes = Append(@, TRUE)]
         IN
         IF fail = "update"
         THEN [messages |-> stored, ev |-> failed]
         ELSE IF conv
         THEN [messages |-> marked, ev |-> [updated EXCEPT !.action = "EscalateQuiet"]]
         ELSE IF ~r.is_do_not_contact
         THEN LET escalation_message == escalation_message_table[ack2, customer_name] IN
              IF fail = "outbound"
              THEN [messages |-> marked,
                    ev |-> [failed EXCEPT !.escalation_writes = Append(@, TRUE),
                                          !.ack_calls = r.ack_calls + 1,
                                          !.raised = filter_raised \/ ack2.raise,
                                          !.sms = <<Sms(escalation_message, delivered)>>]]
              ELSE
              [messages |-> Append(marked, Message(customer_id, "outbound", escalation_message,
                                                   "ai", FALSE, SidOf(delivered))),
               ev |-> [updated EXCEPT !.action = "EscalateWithAck",
                                   !.ack_calls = r.ack_calls + 1,
                                   !.raised = filter_raised \/ ack2.raise,
                                   !.sms = <<Sms(escalation_message, delivered)>>]]
         ELSE [messages |-> marked, ev |-> [updated EXCEPT !.action = "EscalateSilent"]]
    ELSE [messages |-> stored, ev |-> [base EXCEPT !.action = "Suppressed"]]

\* The environment's choices that an inbound handler consumes once the
\* classification r and the history flags are known
AckChoices(B, r, conv) ==
    IF r.should_escalate /\ (~conv) /\ ~r.is_do_not_contact THEN B.ack ELSE NoCall

OngoingReplyChoices(B, r, conv, manual) ==
    IF (~r.should_escalate) /\ (~conv) /\ ~manual THEN B.reply ELSE NoCall

send_ongoing_sms(B) ==
    \E phone \in B.phones, text \in B.texts :
       LET docs == customer_docs(customers, phone) IN
       IF docs = {}
       THEN /\ UNCHANGED <<requests, evaluations>>
            /\ ev' = [NoEv EXCEPT !.op = "send_ongoing_sms", !.status = 404,
                                  !.phone = phone]
            /\ UNCHANGED <<customers, messages, silenced, takeover>>
       ELSE \E customer \in docs :
            /\ Len(messages) < B.maxMessages
            /\ \E classify \in ClassifyChoices(B, text), ack1 \in FilterAckChoices(B, text) :
               LET name == customer.name
                   customer_id == customer.id
                   r == auto_reply_table[text, name, classify, ack1]
                   stored == Append(messages, inbound_message(customer_id, text, r.should_escalate))
                   history == ongoing_history(messages, stored, customer_id)
                   conv == conversation_escalated(history)
                   manual == last_outbound_was_manual(history)
               IN
               \E ack2 \in AckChoices(B, r, conv),
                  reply1 \in OngoingReplyChoices(B, r, conv, manual) :
               \E delivered \in DeliveryChoices(B, AckChoices(B, r, conv) # NoCall
                                                    \/ ~reply1.raise) :
                  \E fail \in B.store_failures :
                  \E out \in {ongoing_sms(messages, customer_id, name, text, classify,
                                          ack1, ack2, reply1, Raised, delivered, fail)} :
                  /\ Len(out.messages) <= B.maxMessages
                  /\ messages' = out.messages
                  /\ UNCHANGED <<requests, evaluations>>
                  /\ ev' = [out.ev EXCEPT !.phone = phone]
                  /\ silenced' = IF out.ev.action = "EscalateSilent"
                                 THEN silenced \cup {customer_id} ELSE silenced
                  /\ UNCHANGED <<customers, takeover>>

(***************************************************************************)
(* handle_incoming_sms, from the save of the incoming message on           *)
(* (messages.py 658-791).  The inbound message is stored before the        *)
(* history is read; a failure of the auto-reply's send_sms is swallowed by *)
(* the handler's inner except and nothing more is written.                 *)
(***************************************************************************)
incoming_sms(msgs, customer_id, customer_name, text, classify, ack1, ack2, delivered, fail) ==
    LET stored == Append(msgs, inbound_message(customer_id, text, FALSE))
        history == incoming_history(msgs, stored, customer_id)
        r == auto_reply_table[text, customer_name, classify, ack1]
        conv == conversation_escalated(history)
        manual == last_outbound_was_manual(history)
        auto_replies == should_auto_reply(Truthy(r.auto_reply), r.should_escalate, conv, manual)
        filter_raised == (r.classify_calls = 1 /\ classify.raise)
                            \/ (r.ack_calls = 1 /\ ack1.raise)
        base == [Classified("handle_incoming_sms", customer_id, r, conv, manual, Len(stored))
                    EXCEPT !.text = text,
                           !.classify = IF r.classify_calls = 1 THEN classify
                                        ELSE NoCompletion,
                           !.raised = filter_raised,
                           !.escalation_writes = <<FALSE>>]
        \* a store operation raised inside the try around the auto-reply: the
        \* except logs it and the webhook answers success
        swallowed == [base EXCEPT !.action = "StoreFailed", !.store_failed = TRUE]
    IN
    IF fail = "inbound"
    THEN \* messages_ref.add(message_data) is outside that try: 500, before any classification
         [messages |-> msgs,
          ev |-> [NoEv EXCEPT !.op = "handle_incoming_sms", !.status = 500,
                              !.customer_id = customer_id, !.text = text,
                              !.action = "StoreFailed", !.store_failed = TRUE]]
    ELSE IF auto_replies
    THEN IF delivered
         THEN IF fail = "outbound"
              THEN [messages |-> stored,
                    ev |-> [swallowed EXCEPT !.sms = <<Sms(r.auto_reply[1], TRUE)>>]]
              ELSE
              [messages |-> Append(stored, Message(customer_id, "outbound", r.auto_reply[1],
                                                   "ai", FALSE, "SM-out")),
               ev |-> [base EXCEPT !.action = "AutoReply",
                                   !.sms = <<Sms(r.auto_reply[1], TRUE)>>]]
         ELSE [messages |-> stored,
               ev |-> [base EXCEPT !.action = "AutoReply",
                                   !.sms = <<Sms(r.auto_reply[1], FALSE)>>]]
    ELSE IF r.should_escalate
    THEN LET marked == mark_escalation(stored)
             updated == [base EXCEPT !.escalation_writes = Append(@, TRUE)]
         IN
         IF fail = "update"
         THEN [messages |-> stored, ev |-> swallowed]
         ELSE IF conv
         THEN [messages |-> marked, ev |-> [updated EXCEPT !.action = "EscalateQuiet"]]
         ELSE IF ~r.is_do_not_contact
         THEN LET escalation_message == escalation_message_table[ack2, customer_name] IN
              IF fail = "outbound"
              THEN [messages |-> marked,
                    ev |-> [swallowed EXCEPT !.escalation_writes = Append(@, TRUE),
                                          !.ack_calls = r.ack_calls + 1,
                                             !.raised = filter_raised \/ ack2.raise,
                                             !.sms = <<Sms(escalation_message, delivered)>>]]
              ELSE
              [messages |-> Append(marked, Message(customer_id, "outbound", escalation_message,
                                                   "ai", FALSE, SidOf(delivered))),
               ev |-> [updated EXCEPT !.action = "EscalateWithAck",
                                   !.ack_calls = r.ack_calls + 1,
                                   !.raised = filter_raised \/ ack2.raise,
                                   !.sms = <<Sms(escalation_message, delivered)>>]]
         ELSE [messages |-> marked, ev |-> [updated EXCEPT !.action = "EscalateSilent"]]
    ELSE [messages |-> stored,
          ev |-> [base EXCEPT !.action = IF conv \/ manual THEN "Suppressed" ELSE "NoReply"]]

handle_incoming_sms(B) ==
    \E phone \in B.phones, text \in B.texts, signature_valid \in B.signatures :
       IF ~signature_valid
       THEN /\ UNCHANGED <<requests, evaluations>>
            /\ ev' = [NoEv EXCEPT !.op = "handle_incoming_sms", !.status = 401]
            /\ UNCHANGED <<customers, messages, silenced, takeover>>
       ELSE LET docs == customer_docs(customers, phone)
                custs == IF docs = {}
                         THEN customers \cup {Customer(UnknownName(phone), phone)}
                         ELSE customers
            IN
            \E customer \in customer_docs(custs, phone) :
            /\ Len(messages) < B.maxMessages
            /\ \E classify \in ClassifyChoices(B, text), ack1 \in FilterAckChoices(B, text) :
               LET name == customer.name
                   customer_id == customer.id
                   stored == Append(messages, inbound_message(customer_id, text, FALSE))
                   history == incoming_history(messages, stored, customer_id)
                   conv == conversation_escalated(history)
                   manual == last_outbound_was_manual(history)
                   r == auto_reply_table[text, name, classify, ack1]
                   replies == Truthy(r.auto_reply) /\ (~r.should_escalate) /\ ~(conv \/ manual)
               IN
               \E ack2 \in AckChoices(B, r, conv) :
               \E delivered \in DeliveryChoices(B, AckChoices(B, r, conv) # NoCall \/ replies) :
                  \E fail \in B.store_failures :
                  \E out \in {incoming_sms(messages, customer_id, name, text,
                                           classify, ack1, ack2, delivered, fail)} :
                  /\ Len(out.messages) <= B.maxMessages
                  /\ customers' = custs
                  /\ messages' = out.messages
                  /\ UNCHANGED <<requests, evaluations>>
                  /\ ev' = out.ev
                  /\ silenced' = IF out.ev.action = "EscalateSilent"
                                 THEN silenced \cup {customer_id} ELSE silenced
                  /\ UNCHANGED takeover

(***************************************************************************)
(* send_manual_message (messages.py 199-274): the staff message is stored  *)
(* with source ai when re_enable_ai is set, manual otherwise; with         *)
(* re_enable_ai every escalated message of the customer is cleared.        *)
(***************************************************************************)
\* len(escalated_docs): the customer's messages with escalation == True
escalated_docs(msgs, customer_id) ==
    Len(SelectSeq(msgs, LAMBDA m : m.customer_id = customer_id /\ m.escalation))

\* Variant: the escalation flags are left as they are
clear_escalation_skipped(msgs, customer_id) == msgs

\* Variant: the flags of every conversation are cleared
clear_escalation_everywhere(msgs, customer_id) ==
    [i \in 1..Len(msgs) |->
        IF msgs[i].escalation THEN [msgs[i] EXCEPT !.escalation = FALSE] ELSE msgs[i]]

clear_escalation(msgs, customer_id) ==
    [i \in 1..Len(msgs) |->
        IF msgs[i].customer_id = customer_id /\ msgs[i].escalation
        THEN [msgs[i] EXCEPT !.escalation = FALSE] ELSE msgs[i]]

manual_message(msgs, customer_id, message_content, re_enable_ai, delivered) ==
    LET stored == Append(msgs, Message(customer_id, "outbound", message_content,
                                       IF re_enable_ai THEN "ai" ELSE "manual",
                                       FALSE, SidOf(delivered)))
    IN IF re_enable_ai THEN clear_escalation(stored, customer_id) ELSE stored

send_manual_message(B) ==
    \E phone \in B.phones, message_content \in StaffContents,
       re_enable_ai \in BOOLEAN, delivered \in DeliveryChoices(B, TRUE) :
       LET docs == customer_docs(customers, phone) IN
       IF docs = {}
       THEN /\ UNCHANGED <<requests, evaluations>>
            /\ ev' = [NoEv EXCEPT !.op = "send_manual_message", !.status = 404]
            /\ UNCHANGED <<customers, messages, silenced, takeover>>
       ELSE \E customer \in docs :
            LET customer_id == customer.id IN
            /\ Len(messages) < B.maxMessages
            /\ StaffWritten(messages) < B.maxStaff
            /\ messages' = manual_message(messages, customer_id, message_content,
                                          re_enable_ai, delivered)
            /\ UNCHANGED <<requests, evaluations>>
            /\ ev' = [NoEv EXCEPT !.op = "send_manual_message", !.status = 200,
                                  !.customer_id = customer_id,
                                  !.re_enable_ai = re_enable_ai,
                                  !.cleared = IF re_enable_ai
                                              THEN escalated_docs(messages, customer_id)
                                              ELSE 0,
                                  !.sms = <<Sms(message_content, delivered)>>]
            /\ silenced' = IF re_enable_ai THEN silenced \ {customer_id} ELSE silenced
            /\ takeover' = IF re_enable_ai THEN takeover \ {customer_id}
                           ELSE takeover \cup {customer_id}
            /\ UNCHANGED customers

(***************************************************************************)
(* send_message (messages.py 103-166) and send_initial_sms (277-352):      *)
(* an AI-written outbound message, stored with source ai.                  *)
(***************************************************************************)
send_message(B) ==
    \E customer_id \in B.phones, first \in B.outbound,
       delivered \in DeliveryChoices(B, TRUE) :
       LET g == generation_table[first, Raised] IN
       IF customer_doc(customers, customer_id) = {}
       THEN /\ UNCHANGED <<requests, evaluations>>
            /\ ev' = [NoEv EXCEPT !.op = "send_message", !.status = 404]
            /\ UNCHANGED <<customers, messages, silenced, takeover>>
       ELSE IF g.raise
       THEN /\ UNCHANGED <<requests, evaluations>>
            /\ ev' = [NoEv EXCEPT !.op = "send_message", !.status = 500,
                                  !.customer_id = customer_id, !.reply_calls = g.calls]
            /\ UNCHANGED <<customers, messages, silenced, takeover>>
       ELSE /\ Len(messages) < B.maxMessages
            /\ StaffWritten(messages) < B.maxStaff
            /\ messages' = Append(messages, Message(customer_id, "outbound", g.content,
                                                    "ai", FALSE, SidOf(delivered)))
            /\ UNCHANGED <<requests, evaluations>>
            /\ ev' = [NoEv EXCEPT !.op = "send_message", !.status = 200,
                                  !.customer_id = customer_id, !.reply_calls = g.calls,
                                  !.sms = <<Sms(g.content, delivered)>>]
            /\ UNCHANGED <<customers, silenced, takeover>>

\* generate_initial_message makes one completion call and re-raises its failure
send_initial_sms(B) ==
    \E phone \in B.phones, name \in CustomerNames, first \in B.outbound,
       delivered \in DeliveryChoices(B, TRUE) :
       LET docs == customer_docs(customers, phone)
           custs == IF docs = {} THEN customers \cup {Customer(name, phone)} ELSE customers
           g == generation_table[first, first]
       IN
       \E customer \in customer_docs(custs, phone) :
          LET customer_id == customer.id IN
          /\ customers' = custs
          /\ IF first.raise
             THEN /\ UNCHANGED <<requests, evaluations>>
                  /\ ev' = [NoEv EXCEPT !.op = "send_initial_sms", !.status = 500,
                                        !.customer_id = customer_id, !.reply_calls = 1]
                  /\ UNCHANGED messages
             ELSE /\ Len(messages) < B.maxMessages
                  /\ StaffWritten(messages) < B.maxStaff
                  /\ messages' = Append(messages,
                                        Message(customer_id, "outbound", g.content,
                                                "ai", FALSE, SidOf(delivered)))
                  /\ UNCHANGED <<requests, evaluations>>
                  /\ ev' = [NoEv EXCEPT !.op = "send_initial_sms", !.status = 200,
                                        !.customer_id = customer_id, !.reply_calls = 1,
                                        !.sms = <<Sms(g.content, delivered)>>]
          /\ UNCHANGED <<silenced, takeover>>

(***************************************************************************)
(* create_manual_message (messages.py 169-196): stores the record the      *)
(* caller describes, with any direction, source and escalation.            *)
(***************************************************************************)
create_manual_message(B) ==
    \E customer_id \in B.phones, content \in RecordContents, shape \in RecordShapes :
       LET direction == shape.direction
           source == shape.source
           escalation == shape.escalation
       IN
       IF customer_doc(customers, customer_id) = {}
       THEN /\ UNCHANGED <<requests, evaluations>>
            /\ ev' = [NoEv EXCEPT !.op = "create_manual_message", !.status = 404]
            /\ UNCHANGED <<customers, messages, silenced, takeover>>
       ELSE /\ Len(messages) < B.maxMessages
            /\ Len(SelectSeq(messages, LAMBDA m : m.content \in RecordContents))
                  < B.maxRecords
            /\ messages' = Append(messages, Message(customer_id, direction, content,
                                                    source, escalation, NoSid))
            /\ UNCHANGED <<requests, evaluations>>
            /\ ev' = [NoEv EXCEPT !.op = "create_manual_message", !.status = 200,
                                  !.customer_id = customer_id]
            /\ takeover' = IF direction = "outbound" /\ source = "manual"
                           THEN takeover \cup {customer_id} ELSE takeover
            /\ UNCHANGED <<customers, silenced>>

(***************************************************************************)
(* customers.py                                                            *)
(***************************************************************************)
create_customer(B) ==
    \E name \in CustomerNames, phone \in B.phones :
       /\ customer_docs(customers, phone) = {}
       /\ customers' = customers \cup {Customer(name, phone)}
       /\ UNCHANGED <<requests, evaluations>>
       /\ ev' = [NoEv EXCEPT !.op = "create_customer", !.status = 200,
                             !.customer_id = phone]
       /\ UNCHANGED <<messages, silenced, takeover>>

\* The requests of the step-by-step handlers, none of them started
MaxRequests == 2

RequestIds == 1..MaxRequests

IdleRequest ==
    [ pc |-> "idle", op |-> "none", customer_id |-> "", name |-> "", text |-> "",
      snapshot |-> <<>>, after |-> {}, action |-> "none",
      conversation_escalated |-> FALSE, sms |-> <<>>, re_enable_ai |-> FALSE ]

NoRequests == [q \in RequestIds |-> IdleRequest]

Init ==
    /\ customers = {}
    /\ messages = <<>>
    /\ ev = NoEv
    /\ silenced = {}
    /\ takeover = {}
    /\ requests = NoRequests
    /\ evaluations = <<>>

Next ==
    \/ create_customer(Core)
    \/ send_ongoing_sms(Core)
    \/ handle_incoming_sms(Core)
    \/ send_manual_message(Core)
    \/ send_message(Core)
    \/ send_initial_sms(Core)
    \/ create_manual_message(Core)

Spec == Init /\ [][Next]_vars

NextLong ==
    \/ send_ongoing_sms(Long)
    \/ handle_incoming_sms(Long)

SpecLong == Init /\ [][NextLong]_vars

NextStore ==
    \/ send_ongoing_sms(Store)
    \/ handle_incoming_sms(Store)

SpecStore == Init /\ [][NextStore]_vars

NextFilter ==
    \/ send_ongoing_sms(Filter)
    \/ handle_incoming_sms(Filter)

SpecFilter == Init /\ [][NextFilter]_vars

(***************************************************************************)
(* The decoding of the classification response by generate_auto_reply, on  *)
(* responses put together from one optional line per key, in two orders,   *)
(* and a few responses that repeat a key.                                  *)
(***************************************************************************)
AutoReplyLines ==
    { "", "AUTO_REPLY: We are open 9-5.", "AUTO_REPLY: NONE", "AUTO_REPLY: none",
      "  AUTO_REPLY:   Sure thing  ", "auto_reply: hello", "AUTO_REPLY:" }

EscalateLines ==
    { "", "ESCALATE: true", "ESCALATE: YES", "ESCALATE:1", "ESCALATE: false",
      "ESCALATE: maybe" }

DoNotContactLines ==
    { "", "DO_NOT_CONTACT: True", "DO_NOT_CONTACT: no", "DO_NOT_CONTACT: 1 " }

ReasonLines == { "", "REASON: routine question" }

RepeatedResponses ==
    { "AUTO_REPLY: hi\nAUTO_REPLY: NONE",
      "AUTO_REPLY: NONE\nAUTO_REPLY: hi",
      "ESCALATE: true\nESCALATE: false",
      "DO_NOT_CONTACT: no\nDO_NOT_CONTACT: yes" }

\* The lines that are present, joined by newlines
RECURSIVE JoinLines(_, _)
JoinLines(lines, k) ==
    IF k > Len(lines) THEN ""
    ELSE LET rest == JoinLines(lines, k + 1) IN
         IF lines[k] = "" THEN rest
         ELSE IF rest = "" THEN lines[k]
         ELSE lines[k] \o "\n" \o rest

DecodeResponses ==
    RepeatedResponses
      \cup { JoinLines(<<a, e, d, r>>, 1) :
                a \in AutoReplyLines, e \in EscalateLines,
                d \in DoNotContactLines, r \in ReasonLines }
      \cup { JoinLines(<<r, d, e, a>>, 1) :
                a \in AutoReplyLines, e \in EscalateLines,
                d \in DoNotContactLines, r \in ReasonLines }

\* A text that trips no filter, so that the classification call is made
DecodeText == "ok thanks"

DecodeName == "Pat"

decode_table ==
    [c \in DecodeResponses |->
        generate_auto_reply(DecodeText, DecodeName, Returned(c), Raised)]

\* One call of generate_auto_reply whose completion returns the response c
decode_classification ==
    \E c \in DecodeResponses :
        LET r == decode_table[c] IN
        /\ UNCHANGED <<requests, evaluations>>
        /\ ev' = [NoEv EXCEPT !.op = "generate_auto_reply", !.text = DecodeText,
                              !.classify = Returned(c),
                              !.auto_reply = r.auto_reply,
                              !.should_escalate = r.should_escalate,
                              !.is_do_not_contact = r.is_do_not_contact,
                              !.classify_calls = r.classify_calls,
                              !.ack_calls = r.ack_calls]
        /\ UNCHANGED <<customers, messages, silenced, takeover>>

NextDecode == decode_classification

SpecDecode == Init /\ [][NextDecode]_vars

(***************************************************************************)
(* The inbound handlers step by step.  A handler is a coroutine: it runs   *)
(* without interruption up to an await and another request may run while   *)
(* it waits.  A request is followed from its start to the await of         *)
(* generate_auto_reply, and from the classification to its end.            *)
(***************************************************************************)
Started(q, op, customer, text) ==
    [ IdleRequest EXCEPT !.pc = "classifying", !.op = op, !.customer_id = customer.id,
                         !.name = customer.name, !.text = text, !.snapshot = messages,
                         !.after = {p \in RequestIds : requests[p].pc = "done"} ]

Finished(q, out) ==
    [ requests[q] EXCEPT !.pc = "done", !.action = out.ev.action,
                         !.conversation_escalated = out.ev.conversation_escalated,
                         !.sms = out.ev.sms ]

\* handle_incoming_sms up to the await of generate_auto_reply (messages.py
\* 636-693): the customer is looked up or created, the inbound message is
\* stored, the history is read
handle_incoming_sms_begin(B) ==
    \E q \in RequestIds, phone \in B.phones, text \in B.texts :
       LET docs == customer_docs(customers, phone)
           custs == IF docs = {}
                    THEN customers \cup {Customer(UnknownName(phone), phone)}
                    ELSE customers
       IN
       \E customer \in customer_docs(custs, phone) :
       /\ requests[q].pc = "idle"
       /\ Len(messages) < B.maxMessages
       /\ customers' = custs
       /\ messages' = Append(messages, inbound_message(customer.id, text, FALSE))
       /\ requests' = [requests EXCEPT ![q] = Started(q, "handle_incoming_sms", customer, text)]
       /\ UNCHANGED <<ev, silenced, takeover, evaluations>>

\* handle_incoming_sms from the classification on (messages.py 693-796),
\* deciding on the history it read: it raises the flag of its own inbound
\* message and appends what it sends
handle_incoming_sms_resume(B) ==
    \E q \in RequestIds :
       /\ requests[q].pc = "classifying"
       /\ requests[q].op = "handle_incoming_sms"
       /\ LET req == requests[q]
              inbound == Len(req.snapshot) + 1
              history == incoming_history(req.snapshot,
                                          Append(req.snapshot,
                                                 inbound_message(req.customer_id, req.text, FALSE)),
                                          req.customer_id)
              conv == conversation_escalated(history)
              manual == last_outbound_was_manual(history)
          IN
          \E classify \in ClassifyChoices(B, req.text), ack1 \in FilterAckChoices(B, req.text) :
          LET r == auto_reply_table[req.text, req.name, classify, ack1] IN
          \E ack2 \in AckChoices(B, r, conv) :
          \E out \in {incoming_sms(req.snapshot, req.customer_id, req.name, req.text,
                                   classify, ack1, ack2, TRUE, "none")} :
             /\ Len(messages) + Len(out.messages) - inbound <= B.maxMessages
             /\ messages' = [messages EXCEPT ![inbound].escalation
                                                = out.messages[inbound].escalation]
                                \o SubSeq(out.messages, inbound + 1, Len(out.messages))
             /\ ev' = out.ev
             /\ requests' = [requests EXCEPT ![q] = Finished(q, out)]
             /\ silenced' = IF out.ev.action = "EscalateSilent"
                            THEN silenced \cup {req.customer_id} ELSE silenced
             /\ UNCHANGED <<customers, takeover, evaluations>>

\* send_ongoing_sms up to the await of generate_auto_reply (messages.py
\* 388-432): the customer is looked up, the history is read
send_ongoing_sms_begin(B) ==
    \E q \in RequestIds, phone \in B.phones, text \in B.texts :
       /\ requests[q].pc = "idle"
       /\ IF customer_docs(customers, phone) = {}
          THEN /\ ev' = [NoEv EXCEPT !.op = "send_ongoing_sms", !.status = 404,
                                     !.phone = phone]
               /\ requests' = [requests EXCEPT ![q] = [IdleRequest EXCEPT !.pc = "done",
                                                       !.op = "send_ongoing_sms"]]
          ELSE \E customer \in customer_docs(customers, phone) :
               /\ requests' = [requests EXCEPT
                                  ![q] = Started(q, "send_ongoing_sms", customer, text)]
               /\ UNCHANGED ev
       /\ UNCHANGED <<customers, messages, silenced, takeover, evaluations>>

\* send_ongoing_sms from the classification on (messages.py 434-584): the
\* inbound message is stored and the decision is taken on the history read
\* before the await
send_ongoing_sms_resume(B) ==
    \E q \in RequestIds :
       /\ requests[q].pc = "classifying"
       /\ requests[q].op = "send_ongoing_sms"
       /\ Len(messages) < B.maxMessages
       /\ LET req == requests[q]
              history == ongoing_history(req.snapshot, req.snapshot, req.customer_id)
              conv == conversation_escalated(history)
              manual == last_outbound_was_manual(history)
          IN
          \E classify \in ClassifyChoices(B, req.text), ack1 \in FilterAckChoices(B, req.text) :
          LET r == auto_reply_table[req.text, req.name, classify, ack1] IN
          \E ack2 \in AckChoices(B, r, conv),
             reply1 \in OngoingReplyChoices(B, r, conv, manual) :
          \E out \in {ongoing_sms(req.snapshot, req.customer_id, req.name, req.text,
                                  classify, ack1, ack2, reply1, Raised, TRUE, "none")} :
             /\ Len(messages) + Len(out.messages) - Len(req.snapshot) <= B.maxMessages
             /\ messages' = messages \o SubSeq(out.messages, Len(req.snapshot) + 1,
                                                Len(out.messages))
             /\ ev' = [out.ev EXCEPT !.inbound = Len(messages) + 1]
             /\ requests' = [requests EXCEPT ![q] = Finished(q, out)]
             /\ silenced' = IF out.ev.action = "EscalateSilent"
                            THEN silenced \cup {req.customer_id} ELSE silenced
             /\ UNCHANGED <<customers, takeover, evaluations>>

NextRace ==
    \/ handle_incoming_sms_begin(Race)
    \/ handle_incoming_sms_resume(Race)
    \/ send_ongoing_sms_begin(Race)
    \/ send_ongoing_sms_resume(Race)

SpecRace == Init /\ [][NextRace]_vars

(***************************************************************************)
(* send_manual_message in two steps around its await of send_sms, beside   *)
(* the inbound handlers in two steps.  The conversation the requests find  *)
(* is written by webhook events that ended before the first of them began. *)
(***************************************************************************)
MaxReenableMessages == 4

Reenable ==
    [ maxMessages |-> MaxReenableMessages, maxRecords |-> 0,
      maxUndelivered |-> 0, maxStaff |-> MaxRequests, phones |-> Phones,
      texts |-> RaceTexts, classify |-> {Returned(c) : c \in StoreClassifyContents},
      ack |-> {Returned(c) : c \in AckContents},
      reply |-> {Returned(c) : c \in ReplyContents},
      outbound |-> {Returned(c) : c \in OutboundContents},
      signatures |-> {TRUE}, store_failures |-> {"none"} ]

\* handle_incoming_sms from its first line to its last, while no other
\* request has begun
handle_incoming_sms_alone(B) ==
    /\ requests = NoRequests
    /\ handle_incoming_sms(B)

\* send_manual_message up to the await of send_sms (messages.py 204-224):
\* the customer is looked up
send_manual_message_begin(B) ==
    \E q \in RequestIds, phone \in B.phones, message_content \in StaffContents,
       re_enable_ai \in BOOLEAN :
       /\ requests[q].pc = "idle"
       /\ IF customer_docs(customers, phone) = {}
          THEN /\ ev' = [NoEv EXCEPT !.op = "send_manual_message", !.status = 404]
               /\ requests' = [requests EXCEPT ![q] = [IdleRequest EXCEPT !.pc = "done",
                                                       !.op = "send_manual_message"]]
          ELSE \E customer \in customer_docs(customers, phone) :
               /\ requests' = [requests EXCEPT
                                  ![q] = [Started(q, "send_manual_message", customer,
                                                  message_content)
                                             EXCEPT !.pc = "sending",
                                                    !.re_enable_ai = re_enable_ai]]
               /\ UNCHANGED ev
       /\ UNCHANGED <<customers, messages, silenced, takeover, evaluations>>

\* send_manual_message after send_sms (messages.py 225-272), without another
\* await: the message is stored and, for re_enable_ai, the escalated
\* messages are queried and cleared
send_manual_message_resume(B) ==
    \E q \in RequestIds, delivered \in DeliveryChoices(B, TRUE) :
       /\ requests[q].pc = "sending"
       /\ requests[q].op = "send_manual_message"
       /\ Len(messages) < B.maxMessages
       /\ LET req == requests[q] IN
          /\ messages' = manual_message(messages, req.customer_id, req.text,
                                        req.re_enable_ai, delivered)
          /\ ev' = [NoEv EXCEPT !.op = "send_manual_message", !.status = 200,
                                !.customer_id = req.customer_id,
                                !.re_enable_ai = req.re_enable_ai,
                                !.cleared = IF req.re_enable_ai
                                            THEN escalated_docs(messages, req.customer_id)
                                            ELSE 0,
                                !.sms = <<Sms(req.text, delivered)>>]
          /\ requests' = [requests EXCEPT ![q] = [req EXCEPT !.pc = "done",
                                                            !.sms = <<Sms(req.text, delivered)>>]]
          /\ silenced' = IF req.re_enable_ai THEN silenced \ {req.customer_id} ELSE silenced
          /\ takeover' = IF req.re_enable_ai THEN takeover \ {req.customer_id}
                         ELSE takeover \cup {req.customer_id}
       /\ UNCHANGED <<customers, evaluations>>

NextReenable ==
    \/ handle_incoming_sms_alone(Reenable)
    \/ send_manual_message_begin(Reenable)
    \/ send_manual_message_resume(Reenable)
    \/ handle_incoming_sms_begin(Reenable)
    \/ handle_incoming_sms_resume(Reenable)
    \/ send_ongoing_sms_begin(Reenable)
    \/ send_ongoing_sms_resume(Reenable)

SpecReenable == Init /\ [][NextReenable]_vars

\* Variant: the filters remember that a customer asked not to be contacted
evaluate_filters_remembering(text) ==
    [ text |-> text,
      dnc |-> filter_table[text].dnc \/ silenced # {},
      critical |-> filter_table[text].critical,
      stored |-> Len(messages) ]

\* _check_do_not_contact_patterns(text) and _check_critical_escalation_patterns(text):
\* local variables only, nothing read from or written to the store
evaluate_filters(text) ==
    [ text |-> text,
      dnc |-> filter_table[text].dnc,
      critical |-> filter_table[text].critical,
      stored |-> Len(messages) ]

\* One evaluation of the two filters on a text
check_patterns(B) ==
    \E text \in B.texts :
       /\ Len(evaluations) < B.maxEvaluations
       /\ evaluations' = Append(evaluations, evaluate_filters(text))
       /\ UNCHANGED <<customers, messages, ev, silenced, takeover, requests>>

NextPatterns == check_patterns(Patterns)

SpecPatterns == Init /\ [][NextPatterns]_vars

NextPure ==
    \/ check_patterns(Pure)
    \/ handle_incoming_sms(Pure)

SpecPure == Init /\ [][NextPure]_vars

NextAck ==
    \/ send_ongoing_sms(Ack)
    \/ handle_incoming_sms(Ack)

SpecAck == Init /\ [][NextAck]_vars

NextManual ==
    \/ handle_incoming_sms(ManualOther)
    \/ handle_incoming_sms(Manual)
    \/ send_ongoing_sms(Manual)
    \/ send_manual_message(Manual)

SpecManual == Init /\ [][NextManual]_vars

(***************************************************************************)
(* The history query of the inbound handlers.  Here messages holds the     *)
(* documents of one conversation in the order the store streams them,      *)
(* which is unrelated to their timestamps; a document carries the          *)
(* timestamp it was given when it was added (datetime.utcnow()).           *)
(***************************************************************************)
MaxHistoryDocs == 11

HistoryCustomer == "+14135550101"

Stamped(m, timestamp) ==
    [ customer_id |-> m.customer_id, direction |-> m.direction, content |-> m.content,
      source |-> m.source, escalation |-> m.escalation, twilio_sid |-> m.twilio_sid,
      timestamp |-> timestamp ]

\* What a conversation alternates between: the customer writes (escalated or
\* not), then the backend or the staff answers
HistoryDocs(timestamp) ==
    IF timestamp % 2 = 1
    THEN { Stamped(inbound_message(HistoryCustomer, "ok thanks", esc), timestamp) :
              esc \in BOOLEAN }
    ELSE { Stamped(Message(HistoryCustomer, "outbound", "We are open 9-5.", source,
                           FALSE, "SM-out"), timestamp) :
              source \in {"ai", "manual"} }

\* Orders in which the stream may hand out the documents stored in order of time
StreamOrders == {"chronological", "newest first", "odd then even"}

Streamed(docs, order) ==
    IF order = "newest first" THEN Reverse(docs)
    ELSE IF order = "odd then even"
    THEN SelectSeq(docs, LAMBDA d : d.timestamp % 2 = 1)
            \o SelectSeq(docs, LAMBDA d : d.timestamp % 2 = 0)
    ELSE docs

RemoveAt(s, i) == SubSeq(s, 1, i - 1) \o SubSeq(s, i + 1, Len(s))

\* Variant: the documents are taken in the order of the stream
stream_order_kept(docs) == docs

\* message_history.sort(key=timestamp, reverse=True): stable, newest first
RECURSIVE sort_newest_first(_)
sort_newest_first(docs) ==
    IF docs = <<>> THEN <<>>
    ELSE LET newest == CHOOSE i \in 1..Len(docs) :
                          /\ \A j \in 1..Len(docs) : docs[j].timestamp <= docs[i].timestamp
                          /\ \A j \in 1..(i - 1) : docs[j].timestamp < docs[i].timestamp
         IN  <<docs[newest]>> \o sort_newest_first(RemoveAt(docs, newest))

\* sort, message_history[:10], reverse
history_window(docs) == Reverse(Take(sort_newest_first(docs), HistoryLimit))

PromptLimit == 5

\* message_history[-5:] in generate_auto_reply
prompt_history(history) ==
    SubSeq(history, IF Len(history) > PromptLimit THEN Len(history) - PromptLimit + 1 ELSE 1,
           Len(history))

\* messages_ref.add of a document of the conversation, stamped with the clock
add_document ==
    /\ Len(messages) < MaxHistoryDocs
    /\ \E doc \in HistoryDocs(Len(messages) + 1) :
          messages' = Append(messages, doc)
    /\ UNCHANGED <<requests, evaluations>>
    /\ ev' = [NoEv EXCEPT !.op = "add", !.customer_id = HistoryCustomer]
    /\ UNCHANGED <<customers, silenced, takeover>>

\* The history query at the start of an inbound event: the stream hands out
\* the documents in some order, the handler sorts, cuts and reverses them
history_query ==
    /\ Len(messages) > 0
    /\ \E order \in StreamOrders :
          LET docs == Streamed(SelectSeq(messages, LAMBDA m : m.customer_id = HistoryCustomer),
                               order)
              history == history_window(docs)
          IN  ev' = [NoEv EXCEPT !.op = "history_query", !.customer_id = HistoryCustomer,
                                 !.order = order,
                                 !.history = history,
                                 !.prompt = prompt_history(history),
                                 !.conversation_escalated = conversation_escalated(history),
                                 !.last_outbound_was_manual = last_outbound_was_manual(history)]
    /\ UNCHANGED <<customers, messages, silenced, takeover, requests, evaluations>>

NextHistory ==
    \/ add_document
    \/ history_query

SpecHistory == Init /\ [][NextHistory]_vars

(***************************************************************************)
(* The two generators with a length check, on completions around the       *)
(* 160-character limit.  completions is what the completion service        *)
(* answers to the first and to the second call, if they are made.          *)
(***************************************************************************)
RECURSIVE Repeat(_, _)
Repeat(s, n) == IF n = 0 THEN "" ELSE s \o Repeat(s, n - 1)

TenCharacters == "Hi John! -"

\* Texts of exactly 160, 161 and 200 characters, with and without white
\* space around them, and short ones
LengthContents ==
    { "Hi John! Quick follow-up.",
      "",
      Repeat(TenCharacters, 16),
      Repeat(TenCharacters, 16) \o "!",
      "  " \o Repeat(TenCharacters, 16) \o " \n",
      " " \o Repeat(TenCharacters, 16) \o "! ",
      Repeat(TenCharacters, 20) }

LengthCompletions == Outcomes(LengthContents)

GenerationOps == {"generate_outbound_message", "generate_ongoing_response"}

\* generate_outbound_message or generate_ongoing_response, called once
generate_with_length_check ==
    \E op \in GenerationOps, first \in LengthCompletions, second \in LengthCompletions :
       LET g == generate_with_length_retry(first, second) IN
       /\ ev' = [NoEv EXCEPT !.op = op,
                             !.completions = <<first, second>>,
                             !.reply_calls = g.calls,
                             !.raised = g.raise,
                             !.result = IF g.raise THEN None ELSE Some(g.content)]
       /\ UNCHANGED <<customers, messages, silenced, takeover, requests, evaluations>>

NextLength == generate_with_length_check

SpecLength == Init /\ [][NextLength]_vars

(***************************************************************************)
(* Deleting a customer whose conversation is stored.  Document ids are     *)
(* modelled by the phone number, so a customer created again for the same  *)
(* phone gets the id of the deleted one.                                   *)
(***************************************************************************)
MaxDeleteMessages == 5

DeleteTexts == {"ok thanks", "I will sue you, this is unacceptable"}

Delete ==
    [ maxMessages |-> MaxDeleteMessages, maxRecords |-> 0,
      maxUndelivered |-> 0, maxStaff |-> 0, phones |-> Phones,
      texts |-> DeleteTexts, classify |-> {Returned(c) : c \in StoreClassifyContents},
      ack |-> {Returned(c) : c \in AckContents},
      reply |-> {Returned(c) : c \in ReplyContents},
      outbound |-> {Returned(c) : c \in OutboundContents},
      signatures |-> {TRUE}, store_failures |-> {"none"} ]

\* delete_customer: 404 for an unknown id; otherwise doc_ref.delete() on the
\* customer document and nothing else (the messages are left, see the TODO)
delete_customer(B) ==
    \E customer_id \in B.phones :
       IF customer_doc(customers, customer_id) = {}
       THEN /\ ev' = [NoEv EXCEPT !.op = "delete_customer", !.status = 404,
                                  !.customer_id = customer_id]
            /\ UNCHANGED <<customers, messages, silenced, takeover, requests,
                           evaluations>>
       ELSE /\ customers' = customers \ customer_doc(customers, customer_id)
            /\ ev' = [NoEv EXCEPT !.op = "delete_customer", !.status = 200,
                                  !.customer_id = customer_id]
            /\ UNCHANGED <<messages, silenced, takeover, requests, evaluations>>

NextDelete ==
    \/ handle_incoming_sms(Delete)
    \/ delete_customer(Delete)

SpecDelete == Init /\ [][NextDelete]_vars

(***************************************************************************)
(* The application: the health check, and the two routers included with    *)
(* the API key dependency.  A request carries an X-API-Key header or none; *)
(* API_KEY is read from the environment on every request.                  *)
(***************************************************************************)
MaxAuthMessages == 2

MaxAuthStaff == 1

VALID_API_KEY == "sms_backend_2025_secure_key_xyz789"

INVALID_API_KEY == "invalid_key"

\* X-API-Key of a request: absent (Header(None)), wrong, or the key
ApiKeyHeaders == {None, Some(INVALID_API_KEY), Some(VALID_API_KEY)}

\* os.getenv("API_KEY"): unset, set to the empty string, or set to the key
ApiKeys == {None, Some(""), Some(VALID_API_KEY)}

AuthTexts == {"unsubscribe"}

Auth ==
    [ maxMessages |-> MaxAuthMessages, maxRecords |-> 1,
      maxUndelivered |-> 0, maxStaff |-> MaxAuthStaff, phones |-> Phones,
      texts |-> AuthTexts, classify |-> {Returned(c) : c \in StoreClassifyContents},
      ack |-> {Returned(c) : c \in AckContents},
      reply |-> {Returned(c) : c \in ReplyContents},
      outbound |-> {Returned(c) : c \in OutboundContents},
      signatures |-> {TRUE}, store_failures |-> {"none"},
      x_api_keys |-> ApiKeyHeaders, api_keys |-> ApiKeys ]

\* Variant: a request without the header passes
verify_api_key_header_optional(x_api_key, expected_api_key) ==
    IF expected_api_key = None \/ expected_api_key = Some("") THEN 500
    ELSE IF x_api_key # None /\ x_api_key # expected_api_key THEN 401
    ELSE 200

\* verify_api_key: the status the dependency raises, 200 when it returns
verify_api_key(x_api_key, expected_api_key) ==
    IF expected_api_key = None \/ expected_api_key = Some("") THEN 500
    ELSE IF x_api_key # expected_api_key THEN 401
    ELSE 200

\* A route of a router included with dependencies=[Depends(verify_api_key)]:
\* the dependency is resolved first and the handler runs only if it returned
include_router(handler, op, x_api_key, api_key) ==
    IF verify_api_key(x_api_key, api_key) = 200
       THEN handler
       ELSE /\ ev' = [NoEv EXCEPT !.op = op,
                                  !.status = verify_api_key(x_api_key, api_key),
                                  !.x_api_key = x_api_key, !.api_key = api_key]
            /\ UNCHANGED <<customers, messages, silenced, takeover, requests,
                           evaluations>>

\* The handler of a route, on the inputs B
route_handler(op, B) ==
    CASE op = "create_customer" -> create_customer(B)
      [] op = "send_message" -> send_message(B)
      [] op = "create_manual_message" -> create_manual_message(B)
      [] op = "send_manual_message" -> send_manual_message(B)
      [] op = "send_initial_sms" -> send_initial_sms(B)
      [] op = "send_ongoing_sms" -> send_ongoing_sms(B)
      [] op = "handle_incoming_sms" -> handle_incoming_sms(B)

CustomerRoutes == {"create_customer"}

MessageRoutes ==
    { "send_message", "create_manual_message", "send_manual_message",
      "send_initial_sms", "send_ongoing_sms", "handle_incoming_sms" }

\* app.include_router(customers.router, prefix="/customers", ...)
customers_router(B) ==
    \E op \in CustomerRoutes, x_api_key \in B.x_api_keys, api_key \in B.api_keys :
       include_router(route_handler(op, B), op, x_api_key, api_key)

\* app.include_router(messages.router, prefix="/messages", ...)
messages_router(B) ==
    \E op \in MessageRoutes, x_api_key \in B.x_api_keys, api_key \in B.api_keys :
       include_router(route_handler(op, B), op, x_api_key, api_key)

\* @app.get("/"): no dependency, whatever header the request carries
health_check(B) ==
    \E x_api_key \in B.x_api_keys, api_key \in B.api_keys :
       /\ ev' = [NoEv EXCEPT !.op = "health_check", !.status = 200,
                             !.x_api_key = x_api_key, !.api_key = api_key]
       /\ UNCHANGED <<customers, messages, silenced, takeover, requests,
                      evaluations>>

NextAuth ==
    \/ health_check(Auth)
    \/ customers_router(Auth)
    \/ messages_router(Auth)

SpecAuth == Init /\ [][NextAuth]_vars

(***************************************************************************)
(* Properties.  ev is the record of the last request handled; an inbound   *)
(* event is a request to send_ongoing_sms or handle_incoming_sms that      *)
(* resolved its customer and stored the inbound message at index           *)
(* ev.inbound.                                                             *)
(***************************************************************************)
InboundOps == {"send_ongoing_sms", "handle_incoming_sms"}

InboundEvent == ev.op \in InboundOps /\ ev.inbound > 0

InboundText == messages[ev.inbound].content

\* This step handles an inbound message of customer c
InboundStep(c) ==
    /\ ev'.op \in InboundOps
    /\ ev'.customer_id = c
    /\ ev'.inbound = Len(messages) + 1

Conversation(msgs, c) == SelectSeq(msgs, LAMBDA m : m.customer_id = c)

HasEscalated(msgs, c) == \E i \in 1..Len(msgs) : msgs[i].customer_id = c /\ msgs[i].escalation

LastN(s, n) == IF Len(s) <= n THEN s ELSE SubSeq(s, Len(s) - n + 1, Len(s))

\* The messages of the history window that precede the inbound message being
\* handled: the whole window for send_ongoing_sms, the window less the inbound
\* message itself for handle_incoming_sms
PriorWindow(msgs, c, op) ==
    LastN(Conversation(msgs, c),
          IF op = "send_ongoing_sms" THEN HistoryLimit ELSE HistoryLimit - 1)

PriorEscalated(w) == \E i \in 1..Len(w) : w[i].escalation

RECURSIVE LastOutboundSource(_, _)
LastOutboundSource(w, i) ==
    IF i = 0 THEN "none"
    ELSE IF w[i].direction = "outbound" THEN w[i].source
    ELSE LastOutboundSource(w, i - 1)

PriorManual(w) == LastOutboundSource(w, Len(w)) = "manual"

\* The window that preceded the inbound message of the last event
EventWindow == PriorWindow(SubSeq(messages, 1, ev.inbound - 1), ev.customer_id, ev.op)

\* What the texts contain, read off the pattern lists themselves
exact_phrase_table ==
    [t \in AllTexts |-> AnyIn(strip(lower(t)), do_not_contact_patterns)]

keyword_table ==
    [t \in AllTexts |->
        AnyIn(strip(lower(t)),
              violence_patterns \o legal_patterns \o medical_emergency_patterns)]

stop_contact_table ==
    [t \in AllTexts |->
        AnyIn(strip(lower(t)), dnc_stop_words) /\ AnyIn(strip(lower(t)), dnc_contact_words)]

MatchesDnc(t) == exact_phrase_table[t] \/ stop_contact_table[t]

NoOutbound == ev.sms = <<>> /\ Len(messages) = ev.inbound

\* C1: once a message of the customer has escalation=true, every later
\* inbound event of that customer, however many inbound messages came in
\* between, ends as Suppressed or Escalate-Quiet and sends nothing.
C1_EscalationSticky ==
    [][\A c \in Phones :
          (HasEscalated(messages, c) /\ InboundStep(c))
             => (ev'.action \in {"Suppressed", "EscalateQuiet"} /\ ev'.sms = <<>>)]_vars

\* C2: after an inbound message was handled as do-not-contact
\* (Escalate-Silent), no later inbound event of that customer sends an
\* automated outbound message, however many inbound messages follow, until
\* staff re-enable.
C2_SilentStaysSilent ==
    [][\A c \in Phones :
          (c \in silenced /\ InboundStep(c))
             => (ev'.sms = <<>> /\ Len(messages') = Len(messages) + 1)]_vars

\* C3: whenever the classification of an inbound message has
\* is_do_not_contact=true, the event generates and sends no reply and no
\* acknowledgment, and the stored inbound message has escalation=true.
C3_DoNotContactSilent ==
    (InboundEvent /\ ev.is_do_not_contact)
       => /\ NoOutbound
          /\ ev.reply_calls = 0
          /\ messages[ev.inbound].escalation

\* C4: for every text that contains one of the exact do-not-contact
\* phrases, the classification is (None, true, true) without any call to the
\* completion service, no outbound message is sent or persisted, and the
\* inbound message is stored with escalation=true.
C4_ExactDoNotContact ==
    (InboundEvent /\ exact_phrase_table[InboundText])
       => /\ ev.auto_reply = None
          /\ ev.should_escalate
          /\ ev.is_do_not_contact
          /\ ev.classify_calls = 0 /\ ev.ack_calls = 0 /\ ev.reply_calls = 0
          /\ NoOutbound
          /\ messages[ev.inbound].escalation

C4_Witness ==
    /\ InboundEvent
    /\ exact_phrase_table[InboundText]
    /\ ev.action = "EscalateSilent"
    /\ messages[ev.inbound].escalation

\* C5: when the most recent outbound message of the window is a manual one,
\* the next inbound message whose classification has should_escalate=false
\* ends as Suppressed: the inbound message is stored, and no reply is
\* generated, sent or persisted, whatever auto_reply the classifier returned.
C5_TakeoverSuppresses ==
    [][\A c \in Phones :
          (/\ InboundStep(c)
           /\ PriorManual(PriorWindow(messages, c, ev'.op))
           /\ ~ev'.should_escalate)
             => /\ ev'.action = "Suppressed"
                /\ ev'.sms = <<>>
                /\ ev'.reply_calls = 0 /\ ev'.ack_calls = 0
                /\ Len(messages') = Len(messages) + 1
                /\ SubSeq(messages', 1, Len(messages)) = messages
                /\ messages'[Len(messages')].direction = "inbound"
                /\ ~messages'[Len(messages')].escalation]_vars

C5_Witness ==
    /\ InboundEvent
    /\ PriorManual(EventWindow)
    /\ ~PriorEscalated(EventWindow)
    /\ Truthy(ev.auto_reply)
    /\ ~ev.should_escalate
    /\ ev.action = "Suppressed"

\* C6: once staff have taken over, no inbound event of the customer ends as
\* Auto-Reply until send_manual_message is called with re_enable_ai=true,
\* whatever operations come in between.
C6_TakeoverSticky ==
    [][\A c \in Phones :
          (c \in takeover /\ InboundStep(c)) => ev'.action # "AutoReply"]_vars

\* send_manual_message with re_enable_ai=true was the last request, for
\* customer c, and cleared at least one escalation flag
Reenabled(c) ==
    /\ ev.op = "send_manual_message"
    /\ ev.status = 200
    /\ ev.customer_id = c
    /\ ev.re_enable_ai
    /\ ev.cleared > 0

C8_CriticalOriginal ==
    (InboundEvent /\ keyword_table[InboundText] /\ ~MatchesDnc(InboundText))
       => /\ ev.should_escalate
          /\ ~ev.is_do_not_contact
          /\ ev.auto_reply # None
          /\ ev.ack_calls > 0
          /\ Len(ev.sms) = 1

\* C8, amended: such a text is classified should_escalate=true,
\* is_do_not_contact=false with an acknowledgment text that the classifier
\* generated; the acknowledgment is sent unless a message of the window is
\* already escalated, in which case nothing is sent.
C8_Critical ==
    (InboundEvent /\ keyword_table[InboundText] /\ ~MatchesDnc(InboundText))
       => /\ ev.should_escalate
          /\ ~ev.is_do_not_contact
          /\ ev.auto_reply # None
          /\ ev.ack_calls > 0
          /\ IF PriorEscalated(EventWindow)
             THEN ev.action = "EscalateQuiet" /\ NoOutbound
             ELSE ev.action = "EscalateWithAck" /\ Len(ev.sms) = 1

C8_Witness ==
    /\ InboundEvent
    /\ keyword_table[InboundText]
    /\ ~MatchesDnc(InboundText)
    /\ ev.action = "EscalateWithAck"
    /\ Len(ev.sms) = 1

\* The acknowledgment of the last event, if it was sent and persisted
AckPersisted ==
    /\ Len(ev.sms) = 1
    /\ Len(messages) = ev.inbound + 1
    /\ messages[ev.inbound + 1].direction = "outbound"
    /\ messages[ev.inbound + 1].source = "ai"
    /\ ~messages[ev.inbound + 1].escalation
    /\ messages[ev.inbound + 1].content = ev.sms[1].body

Acknowledged(c) ==
    /\ InboundEvent
    /\ ev.customer_id = c
    /\ ev.action = "EscalateWithAck"

NewInboundText == messages'[ev'.inbound].content

\* C10, as stated: after an event that ended as Escalate-With-Ack, the next
\* inbound message whose text matches no pattern ends as Escalate-Quiet, with
\* no reply and no second acknowledgment.
C10_NoSecondAckOriginal ==
    [][\A c \in Phones :
          (/\ Acknowledged(c)
           /\ InboundStep(c)
           /\ ~pattern_table[NewInboundText].dnc
           /\ ~pattern_table[NewInboundText].critical)
             => ev'.action = "EscalateQuiet" /\ ev'.sms = <<>>]_vars

\* C10, amended: such a message ends as Escalate-Quiet when the classifier
\* escalates it and as Suppressed when it does not; in both cases no reply
\* and no second acknowledgment is generated, sent or persisted.
C10_NoSecondAck ==
    [][\A c \in Phones :
          (/\ Acknowledged(c)
           /\ InboundStep(c)
           /\ ~pattern_table[NewInboundText].dnc
           /\ ~pattern_table[NewInboundText].critical)
             => /\ ev'.action = IF ev'.should_escalate
                                THEN "EscalateQuiet" ELSE "Suppressed"
                /\ ev'.sms = <<>>
                /\ ev'.ack_calls = 0 /\ ev'.reply_calls = 0
                /\ Len(messages') = Len(messages) + 1]_vars

\* A plain message that follows an acknowledgment and is suppressed
C10_Witness ==
    /\ InboundEvent
    /\ ev.inbound > 2
    /\ messages[ev.inbound - 2].escalation
    /\ messages[ev.inbound - 1].direction = "outbound"
    /\ messages[ev.inbound - 1].source = "ai"
    /\ ~pattern_table[InboundText].dnc
    /\ ~pattern_table[InboundText].critical
    /\ Truthy(ev.auto_reply)
    /\ ev.action = "Suppressed"
    /\ NoOutbound

EscalationActions == {"EscalateQuiet", "EscalateWithAck", "EscalateSilent"}

\* The classification completion call of the last event was made and raised
ClassifierRaised == ev.classify_calls = 1 /\ ev.classify.raise

\* C11: if a completion call made while handling an inbound event raises
\* (classification, acknowledgment or conversational reply), the entry point
\* still returns success with an escalation action.
C11_GenerationFallback ==
    (InboundEvent /\ ev.raised)
       => /\ ev.status = 200
          /\ ev.action \in EscalationActions
          /\ messages[ev.inbound].escalation

DeliveryFailed == Len(ev.sms) = 1 /\ ~ev.sms[1].delivered

\* C13: whenever sending the outbound SMS of an inbound event fails, for an
\* acknowledgment or an auto-reply and in both entry points, the outbound
\* message is still persisted with the sentinel NOT_SENT_TWILIO_ERROR and
\* the event reports success.
C13_DeliveryFailure ==
    (InboundEvent /\ DeliveryFailed)
       => /\ ev.status = 200
          /\ Len(messages) = ev.inbound + 1
          /\ messages[ev.inbound + 1].direction = "outbound"
          /\ messages[ev.inbound + 1].content = ev.sms[1].body
          /\ messages[ev.inbound + 1].twilio_sid = NOT_SENT_TWILIO_ERROR

\* The conversation state does not suppress the last event: no escalated
\* message in the window before it and the last outbound message not manual
Unsuppressed == (~PriorEscalated(EventWindow)) /\ ~PriorManual(EventWindow)

\* C15: every inbound event ends in one terminal action with at most one
\* outbound message sent and persisted, and an event that the conversation
\* state does not suppress either sends a reply or leaves the inbound message
\* with escalation=true.
C15_OneTerminalAction ==
    InboundEvent
       => /\ Len(ev.sms) <= 1
          /\ Len(messages) <= ev.inbound + 1
          /\ Unsuppressed => (Len(ev.sms) = 1 \/ messages[ev.inbound].escalation)

\* C16: every inbound event whose customer is resolved appends exactly one
\* inbound message, with the received text as its content, whichever
\* terminal action follows and even when generation, delivery or the
\* acknowledgment fails.
C16_InboundPersistedOnce ==
    [][(ev'.op \in InboundOps /\ ev'.status \in {200, 500})
          => /\ Len(messages') > Len(messages)
             /\ SubSeq(messages', 1, Len(messages)) = messages
             /\ messages'[Len(messages) + 1].direction = "inbound"
             /\ messages'[Len(messages) + 1].content = ev'.text
             /\ messages'[Len(messages) + 1].customer_id = ev'.customer_id
             /\ \A i \in (Len(messages) + 2)..Len(messages') :
                   messages'[i].direction = "outbound"]_vars

\* The reply generation failed and the inbound message is the last one stored
C16_Witness ==
    /\ ev.op = "send_ongoing_sms"
    /\ ev.status = 500
    /\ ev.raised
    /\ ev.inbound = Len(messages)
    /\ messages[ev.inbound].direction = "inbound"
    /\ messages[ev.inbound].content = ev.text

BenignResponse == "AUTO_REPLY: We are open 9-5.\nESCALATE: false\nDO_NOT_CONTACT: false"

\* The last event is the case of the Auto-Reply effect: nothing in the
\* conversation suppresses it, the text matches no pattern and the
\* classifier returned a reply with escalate=false
AutoReplyCase ==
    /\ InboundEvent
    /\ Unsuppressed
    /\ ~MatchesDnc(ev.text)
    /\ ev.classify_calls = 1
    /\ ev.classify = Returned(BenignResponse)

\* The two messages of an auto-reply: the inbound message with
\* escalation=false, then one outbound message with source ai
TwoMessages ==
    /\ Len(messages) = ev.inbound + 1
    /\ messages[ev.inbound].direction = "inbound"
    /\ ~messages[ev.inbound].escalation
    /\ messages[ev.inbound + 1].direction = "outbound"
    /\ messages[ev.inbound + 1].source = "ai"
    /\ ~messages[ev.inbound + 1].escalation
    /\ Len(ev.sms) = 1
    /\ messages[ev.inbound + 1].content = ev.sms[1].body

critical_phrase_table ==
    [t \in AllTexts |->
        \/ AnyIn(strip(lower(t)),
                 violence_patterns \o legal_patterns \o medical_emergency_patterns
                    \o extreme_anger_patterns)
        \/ (AnyIn(strip(lower(t)), threat_words) /\ AnyIn(strip(lower(t)), threat_actions))]

C14_PersistenceFatal ==
    (ev.op \in InboundOps /\ ev.store_failed) => ev.status = 500

BothFilters == MatchesDnc(ev.text) /\ critical_phrase_table[ev.text]

\* C18: a text that matches both the do-not-contact patterns and the
\* critical-escalation patterns is treated as do-not-contact: the result is
\* (None, true, true), neither the acknowledgment generator nor the classifier
\* is invoked, and no acknowledgment is sent or stored.
C18_FilterPrecedence ==
    (InboundEvent /\ BothFilters)
       => /\ ev.auto_reply = None
          /\ ev.should_escalate
          /\ ev.is_do_not_contact
          /\ ev.classify_calls = 0
          /\ ev.ack_calls = 0
          /\ NoOutbound
          /\ ev.action \in {"EscalateSilent", "EscalateQuiet"}

C18_Witness ==
    /\ InboundEvent
    /\ BothFilters
    /\ ev.text = "If you contact me again I will sue"
    /\ ev.action = "EscalateSilent"
    /\ messages[ev.inbound].escalation

\* The lines of a response, and what a line says after its key
ResponseLines(content) == split_lines(strip(content))

LinesWith(content, key) ==
    { k \in 1..Len(ResponseLines(content)) :
        startswith(strip(ResponseLines(content)[k]), key) }

ValueAt(content, k, key) == strip(AfterPrefix(strip(ResponseLines(content)[k]), key))

ReplyOf(value) == IF lower(value) = "none" THEN None ELSE Some(value)

SaysTrue(value) == lower(value) \in {"true", "yes", "1"}

HasKnownKey(line) ==
    \E key \in {"AUTO_REPLY:", "ESCALATE:", "DO_NOT_CONTACT:"} : startswith(strip(line), key)

\* The response without the lines that carry no known key
KnownOnly(content) ==
    JoinLines([k \in 1..Len(ResponseLines(content)) |->
                  IF HasKnownKey(ResponseLines(content)[k])
                  THEN ResponseLines(content)[k] ELSE ""], 1)

Decoded == ev.op = "generate_auto_reply"

\* C20: for every completion response, read as a sequence of lines,
\* generate_auto_reply returns auto_reply = the trimmed remainder of the
\* AUTO_REPLY line, None when that remainder is NONE in any letter case or the
\* line is absent; should_escalate and is_do_not_contact are true exactly when
\* the trimmed value of the ESCALATE / DO_NOT_CONTACT line is one of true,
\* yes, 1 in any letter case, and false when the line is absent or says
\* anything else; lines without a known key prefix do not change the result.
\* (When a key is repeated, the result is that of one of its lines.)
C20_ResponseDecoding ==
    Decoded =>
        LET c == ev.classify.content
            known == parse_response(KnownOnly(c))
        IN
        /\ IF LinesWith(c, "AUTO_REPLY:") = {}
           THEN ev.auto_reply = None
           ELSE \E k \in LinesWith(c, "AUTO_REPLY:") :
                    ev.auto_reply = ReplyOf(ValueAt(c, k, "AUTO_REPLY:"))
        /\ IF LinesWith(c, "ESCALATE:") = {}
           THEN ~ev.should_escalate
           ELSE \E k \in LinesWith(c, "ESCALATE:") :
                    ev.should_escalate = SaysTrue(ValueAt(c, k, "ESCALATE:"))
        /\ IF LinesWith(c, "DO_NOT_CONTACT:") = {}
           THEN ~ev.is_do_not_contact
           ELSE \E k \in LinesWith(c, "DO_NOT_CONTACT:") :
                    ev.is_do_not_contact = SaysTrue(ValueAt(c, k, "DO_NOT_CONTACT:"))
        /\ ev.auto_reply = known.auto_reply
        /\ ev.should_escalate = known.should_escalate
        /\ ev.is_do_not_contact = known.is_do_not_contact
        /\ ev.classify_calls = 1

C20_Witness ==
    /\ Decoded
    /\ ev.classify.content
          = "REASON: routine question\nDO_NOT_CONTACT: 1 \nESCALATE: YES\nAUTO_REPLY: none"
    /\ ev.auto_reply = None
    /\ ev.should_escalate
    /\ ev.is_do_not_contact

Min(a, b) == IF a < b THEN a ELSE b

Stamps(s) == {s[i].timestamp : i \in 1..Len(s)}

Elements(s) == {s[i] : i \in 1..Len(s)}

HistoryRead == ev.op = "history_query"

\* C21: for a conversation with n stored messages, in whatever order the store
\* returns them, the history used to decide an inbound event is exactly the
\* min(n, 10) messages with the greatest timestamps in ascending timestamp
\* order; the classifier prompt uses only the last 5 entries of that window,
\* while conversation_escalated and last_outbound_was_manual are computed
\* over all of it.
C21_HistoryWindow ==
    HistoryRead =>
        LET h == ev.history
            p == ev.prompt
            n == Len(messages)
            outs == {i \in 1..Len(h) : h[i].direction = "outbound"}
        IN
        /\ Len(h) = Min(n, 10)
        /\ Elements(h) \subseteq Elements(messages)
        /\ \A i \in 1..(Len(h) - 1) : h[i].timestamp < h[i + 1].timestamp
        /\ \A m \in Elements(messages) \ Elements(h) :
              \A i \in 1..Len(h) : m.timestamp < h[i].timestamp
        /\ Len(p) = Min(Len(h), 5)
        /\ \A i \in 1..Len(p) : p[i] = h[Len(h) - Len(p) + i]
        /\ ev.conversation_escalated <=> (\E m \in Elements(h) : m.escalation)
        /\ ev.last_outbound_was_manual
              <=> \E i \in outs : /\ h[i].source = "manual"
                                  /\ \A j \in outs : j <= i

\* Eleven messages streamed out of order; the escalated message is in the
\* window but not among the five of the prompt, the oldest message is dropped
C21_Witness ==
    /\ HistoryRead
    /\ ev.order = "odd then even"
    /\ Len(messages) = 11
    /\ Len(ev.history) = 10
    /\ Stamps(ev.history) = 2..11
    /\ Stamps(ev.prompt) = 7..11
    /\ ev.history[2].escalation
    /\ \A i \in 1..Len(ev.prompt) : ~ev.prompt[i].escalation
    /\ ev.conversation_escalated

ManualSent == ev.op = "send_manual_message" /\ ev.status = 200

\* C22: send_manual_message with re_enable_ai=true stores the staff message
\* with source=ai and leaves no message of that customer, inside or outside
\* the 10-message window, with escalation=true; with re_enable_ai=false it
\* stores the message with source=manual and changes no escalation flag.  In
\* both cases the messages of other customers are unchanged.
C22_ReenableSideChannel ==
    [][(ev'.op = "send_manual_message" /\ ev'.status = 200)
          => LET c == ev'.customer_id
                 n == Len(messages)
             IN
             /\ Len(messages') = n + 1
             /\ messages'[n + 1].customer_id = c
             /\ messages'[n + 1].direction = "outbound"
             /\ messages'[n + 1].content = ev'.sms[1].body
             /\ ~messages'[n + 1].escalation
             /\ messages'[n + 1].source = IF ev'.re_enable_ai THEN "ai" ELSE "manual"
             /\ ev'.re_enable_ai
                   => \A i \in 1..n :
                         messages[i].customer_id = c
                            => messages'[i] = [messages[i] EXCEPT !.escalation = FALSE]
             /\ ~ev'.re_enable_ai => \A i \in 1..n : messages'[i] = messages[i]
             /\ \A i \in 1..n : messages[i].customer_id # c => messages'[i] = messages[i]
      ]_vars

\* A re-enable cleared eleven flags of the customer, at least one of them
\* older than the window, next to an escalated message of another customer
C22_Witness ==
    /\ ManualSent
    /\ ev.re_enable_ai
    /\ ev.cleared > HistoryLimit
    /\ messages[Len(messages)].source = "ai"
    /\ \A i \in 1..Len(messages) :
          messages[i].customer_id = ev.customer_id => ~messages[i].escalation
    /\ \E i \in 1..Len(messages) :
          messages[i].customer_id = OtherPhone /\ messages[i].escalation

\* The positions at which a sequence of written flag values changes
FlagChanges(writes) == {i \in 1..(Len(writes) - 1) : writes[i] # writes[i + 1]}

\* C23: while handling one inbound event the escalation flag of the inbound
\* message changes at most once and only from false to true, and the flag of
\* no other message changes; the only operation that ever changes a
\* message's escalation from true to false is the re-enable-AI action.
C23_FlagDiscipline ==
    [][/\ ev'.op \in InboundOps
            => /\ Cardinality(FlagChanges(ev'.escalation_writes)) <= 1
               /\ \A i \in FlagChanges(ev'.escalation_writes) :
                     ~ev'.escalation_writes[i] /\ ev'.escalation_writes[i + 1]
               /\ ev'.inbound > 0
                     => /\ ev'.inbound = Len(messages) + 1
                        /\ ev'.escalation_writes # <<>>
                        /\ messages'[ev'.inbound].escalation
                              = ev'.escalation_writes[Len(ev'.escalation_writes)]
               /\ \A i \in 1..Len(messages) :
                     messages'[i].escalation = messages[i].escalation
       /\ \A i \in 1..Len(messages) :
             (messages[i].escalation /\ ~messages'[i].escalation)
                => /\ ev'.op = "send_manual_message"
                   /\ ev'.re_enable_ai
                   /\ messages[i].customer_id = ev'.customer_id
      ]_vars

\* The webhook stored the message unescalated and then raised its flag, in a
\* conversation whose earlier do-not-contact message had its flag cleared by
\* a re-enable
C23_Witness ==
    /\ ev.op = "handle_incoming_sms"
    /\ ev.escalation_writes = <<FALSE, TRUE>>
    /\ messages[ev.inbound].escalation
    /\ \E i \in 1..(ev.inbound - 1) :
          /\ messages[i].direction = "inbound"
          /\ messages[i].content \in Texts
          /\ MatchesDnc(messages[i].content)
          /\ ~messages[i].escalation

\* C24: generate_escalation_message never raises and falls back to the fixed
\* sentence with the customer's name when its completion call fails, so an
\* Escalate-With-Ack event always has a non-empty acknowledgment text to send
\* and to store.
C24_AckNeverEmpty ==
    (InboundEvent /\ ev.action = "EscalateWithAck")
       => /\ Len(ev.sms) = 1
          /\ ev.sms[1].body # ""
          /\ messages[Len(messages)].content = ev.sms[1].body

\* Two requests overlap unless one of them started after the other was done
Overlap(p, q) == p \notin requests[q].after /\ q \notin requests[p].after

Acked(q) == requests[q].pc = "done" /\ requests[q].action = "EscalateWithAck"

\* C25: nothing guards two inbound events of one customer against each
\* other.  Two events that do not overlap never both send an escalation
\* acknowledgment while the conversation stays escalated; the witness is the
\* interleaving of two overlapping events that both read a history without
\* escalation and both send one.
C25_NoCrossEventGuard ==
    \A p, q \in RequestIds :
       (p # q /\ Acked(p) /\ Acked(q) /\ requests[p].customer_id = requests[q].customer_id)
          => Overlap(p, q)

C25_Witness ==
    \E p, q \in RequestIds :
       /\ p # q
       /\ Acked(p) /\ Acked(q)
       /\ requests[p].customer_id = requests[q].customer_id
       /\ Overlap(p, q)
       /\ ~requests[p].conversation_escalated
       /\ ~requests[q].conversation_escalated
       /\ Len(requests[p].sms) = 1 /\ Len(requests[q].sms) = 1
       /\ Len(SelectSeq(messages, LAMBDA m : m.direction = "outbound"
                                             /\ m.content \in AckContents)) = 2

HasAny(text, words) == \E w \in words : Contains(text, w)

\* The rule of the do-not-contact filter, on the lower-cased text
dnc_rule_table ==
    [t \in PatternTexts |->
        \/ HasAny(lower(t), Items(do_not_contact_patterns))
        \/ /\ HasAny(lower(t), {"stop", "don't", "remove", "unsubscribe", "opt out"})
           /\ HasAny(lower(t), {"contact", "message", "text", "call", "bother"})]

\* C26: _check_do_not_contact_patterns(text) is true exactly when the
\* lower-cased text contains one of the fixed exact phrases, or contains both
\* one of stop, don't, remove, unsubscribe, opt out and one of contact,
\* message, text, call, bother; a text with neither is not flagged.
C26_DoNotContactRule ==
    \A i \in 1..Len(evaluations) :
       evaluations[i].dnc = dnc_rule_table[evaluations[i].text]

\* Flagged by the word rule alone, in capitals
C26_Witness ==
    /\ Len(evaluations) = 1
    /\ evaluations[1].text = "REMOVE SENDING ME A CALL"
    /\ evaluations[1].dnc
    /\ ~HasAny(lower(evaluations[1].text), Items(do_not_contact_patterns))

\* The rule of the critical-escalation filter, on the lower-cased text
critical_rule_table ==
    [t \in PatternTexts |->
        \/ HasAny(lower(t), Items(violence_patterns))
        \/ HasAny(lower(t), Items(legal_patterns))
        \/ HasAny(lower(t), Items(medical_emergency_patterns))
        \/ HasAny(lower(t), Items(extreme_anger_patterns))
        \/ /\ HasAny(lower(t), {"going to", "will", "gonna"})
           /\ HasAny(lower(t), {"kill", "hurt", "destroy", "sue", "report"})]

\* The filter on the two other spellings of a text
critical_case_table ==
    [t \in SpelledTexts |->
        [upper |-> check_critical_escalation_patterns(upper(t)),
         lower |-> check_critical_escalation_patterns(lower(t))]]

\* C27: _check_critical_escalation_patterns(text) is true exactly when the
\* lower-cased text contains a keyword of one of the four categories
\* (violence/threat, legal, medical emergency, extreme anger) or contains
\* both one of going to, will, gonna and one of kill, hurt, destroy, sue,
\* report; the result does not depend on letter case.
C27_CriticalRule ==
    \A i \in 1..Len(evaluations) :
       /\ evaluations[i].critical = critical_rule_table[evaluations[i].text]
       /\ evaluations[i].text \in SpelledTexts
             => /\ evaluations[i].critical = critical_case_table[evaluations[i].text].upper
                /\ evaluations[i].critical = critical_case_table[evaluations[i].text].lower

\* Flagged by the threat combination alone, in mixed case
C27_Witness ==
    /\ Len(evaluations) = 1
    /\ evaluations[1].text = "  Hello, i am gonna report this!  "
    /\ evaluations[1].critical
    /\ ~HasAny(lower(evaluations[1].text),
               Items(violence_patterns) \cup Items(legal_patterns)
                  \cup Items(medical_emergency_patterns) \cup Items(extreme_anger_patterns))

C29_UnknownPhone ==
    [][ev'.op = "send_ongoing_sms"
          => /\ ev'.status = 404 <=> ~\E c \in customers : c.phone = ev'.phone
             /\ ev'.status = 404
                   => /\ UNCHANGED <<customers, messages, silenced, takeover,
                                     requests, evaluations>>
                      /\ ev'.classify_calls = 0
                      /\ ev'.ack_calls = 0
                      /\ ev'.reply_calls = 0
                      /\ ev'.sms = <<>>
                      /\ ev'.inbound = 0
                      /\ ev'.action = "none"
      ]_vars

\* The number is unknown while another customer and their message exist
C29_Witness ==
    /\ ev.op = "send_ongoing_sms"
    /\ ev.status = 404
    /\ ev.phone \in Phones
    /\ customers # {}
    /\ \A c \in customers : c.phone # ev.phone
    /\ Len(messages) > 0

\* C30: when API_KEY is configured, a request to a route of /customers or
\* /messages whose X-API-Key header is missing or differs from it is answered
\* 401 and nothing is stored, sent or generated; the health check answers
\* 200 whatever the header.
Configured(api_key) == api_key # None /\ api_key # Some("")

Unchanged ==
    UNCHANGED <<customers, messages, silenced, takeover, requests, evaluations>>

C30_ApiKeyRequired ==
    [][/\ \A op \in CustomerRoutes \cup MessageRoutes,
             x_api_key \in Auth.x_api_keys, api_key \in Auth.api_keys :
             ( /\ Configured(api_key)
               /\ x_api_key # api_key
               /\ include_router(route_handler(op, Auth), op, x_api_key, api_key) )
                => /\ ev'.status = 401
                   /\ ev'.sms = <<>>
                   /\ ev'.classify_calls + ev'.ack_calls + ev'.reply_calls = 0
                   /\ Unchanged
       /\ ev'.op = "health_check" => ev'.status = 200 /\ Unchanged]_vars

C30_Witness ==
    /\ ev.op = "send_ongoing_sms"
    /\ ev.status = 401
    /\ ev.x_api_key = None
    /\ ev.api_key = Some(VALID_API_KEY)
    /\ customers # {}
    /\ Len(messages) < Auth.maxMessages

\* C31: after delete_customer succeeds for a customer, the store holds no
\* message whose customer_id is that customer's.
C31_DeleteRemovesMessages ==
    (ev.op = "delete_customer" /\ ev.status = 200)
        => \A i \in 1..Len(messages) : messages[i].customer_id # ev.customer_id

\* C32: an inbound event that is handled while the last outbound message of
\* the window is manual and no message of the window is escalated, and whose
\* classification is should_escalate without do-not-contact, ends as
\* Escalate-With-Ack: the inbound message is marked, one acknowledgment is
\* handed to the transport and stored with source=ai; it is not Suppressed.
TakeoverEscalation ==
    /\ InboundEvent
    /\ ev.last_outbound_was_manual
    /\ ~ev.conversation_escalated
    /\ ev.should_escalate
    /\ ~ev.is_do_not_contact

C32_EscalationBeforeTakeover ==
    TakeoverEscalation
        => /\ ev.action = "EscalateWithAck"
           /\ Len(ev.sms) = 1
           /\ Len(messages) = ev.inbound + 1
           /\ messages[ev.inbound].escalation
           /\ messages[Len(messages)].direction = "outbound"
           /\ messages[Len(messages)].source = "ai"
           /\ messages[Len(messages)].content = ev.sms[1].body

C32_Witness == TakeoverEscalation /\ ev.action = "EscalateWithAck"

\* C33: an inbound event that ends as Suppressed appends exactly one message,
\* the inbound one with the text as received and escalation=false, hands
\* nothing to the transport, calls neither the reply generator nor the
\* acknowledgment generator, and leaves every message stored before it as
\* it was.
C33_SuppressedFrame ==
    [][(ev'.op \in InboundOps /\ ev'.action = "Suppressed")
          => /\ Len(messages') = Len(messages) + 1
             /\ SubSeq(messages', 1, Len(messages)) = messages
             /\ ev'.inbound = Len(messages')
             /\ messages'[Len(messages')] =
                    Message(ev'.customer_id, "inbound", ev'.text, "manual", FALSE, NoSid)
             /\ ev'.sms = <<>>
             /\ ev'.reply_calls = 0
             /\ ev'.ack_calls = 0
             /\ ev'.status = 200]_vars

C33_Witness ==
    /\ ev.op = "send_ongoing_sms"
    /\ ev.action = "Suppressed"
    /\ ev.last_outbound_was_manual
    /\ ev.inbound = Len(messages)
    /\ Len(messages) > 1

C35_AckGeneratorOnce ==
    InboundEvent
        => /\ ev.ack_calls <= 1
           /\ ev.ack_calls = 1 => ev.action = "EscalateWithAck"

\* C38: generate_outbound_message and generate_ongoing_response make exactly
\* one completion call when the first response has at most 160 characters
\* and return it; when it is longer they make exactly two and return the
\* second response whatever its length; there is never a third call.  A
\* response is the completion's content without the white space around it.
Response(completion) == strip(completion.content)

Decision(out) ==
    [ reply |-> out.ev.action = "AutoReply" /\ Len(out.ev.sms) = 1,
      acknowledgment |-> out.ev.action = "EscalateWithAck" /\ Len(out.ev.sms) = 1,
      escalation |-> out.messages[out.ev.inbound].escalation ]

C36_EntryPointsAgree ==
    \A customer \in customers, text \in Core.texts :
       \A classify \in ClassifyChoices(Core, text), ack1 \in FilterAckChoices(Core, text),
          ack2 \in {Returned(c) : c \in AckContents},
          reply1 \in {Returned(c) : c \in ReplyContents} :
          Decision(ongoing_sms(messages, customer.id, customer.name, text, classify,
                               ack1, ack2, reply1, reply1, TRUE, "none"))
             = Decision(incoming_sms(messages, customer.id, customer.name, text, classify,
                                     ack1, ack2, TRUE, "none"))

\* C37: when a send_manual_message with re_enable_ai=true and one inbound
\* handler of the same customer have both finished, in whatever order their
\* steps were taken and no other request having begun, the only message of that customer that can have
\* escalation=true is the inbound message of that event (the one inbound
\* message stored after the event began); no flag that was set when the
\* re-enable began is still set.
ReenableDone(p) ==
    /\ requests[p].pc = "done"
    /\ requests[p].op = "send_manual_message"
    /\ requests[p].re_enable_ai
    /\ requests[p].sms # <<>>

InboundDone(q) == requests[q].pc = "done" /\ requests[q].op \in InboundOps

OnlyRequests(p, q) == \A r \in RequestIds \ {p, q} : requests[r].pc = "idle"

C37_ReenableInterleaved ==
    \A p, q \in RequestIds :
       (ReenableDone(p) /\ InboundDone(q) /\ OnlyRequests(p, q)
          /\ requests[p].customer_id = requests[q].customer_id)
          => \A i \in 1..Len(messages) :
                (messages[i].customer_id = requests[p].customer_id /\ messages[i].escalation)
                   => /\ i > Len(requests[q].snapshot)
                      /\ messages[i].direction = "inbound"
                      /\ messages[i].content = requests[q].text

C37_Witness ==
    \E p, q \in RequestIds :
       /\ ReenableDone(p) /\ InboundDone(q) /\ OnlyRequests(p, q)
       /\ requests[p].customer_id = requests[q].customer_id
       /\ Overlap(p, q)
       /\ \E i \in 1..Len(requests[p].snapshot) :
             requests[p].snapshot[i].escalation /\ ~messages[i].escalation
       /\ \E i \in 1..Len(messages) : messages[i].escalation

====
